---- MODULE Spec2Model ----
(***************************************************************************)
(* A model of microns_utils.model_utils.PolyModel: the term parser, the    *)
(* design-matrix evaluators of __init__ and run, the closed-form least     *)
(* squares solver, and the r2 diagnostic, together with the life cycle of  *)
(* one PolyModel object (construction, then any sequence of run and r2).   *)
(*                                                                         *)
(* Numbers.  numpy computes in float64.  The model computes in exact       *)
(* rationals <<n, d>> (d > 0, lowest terms) extended by the three          *)
(* non-finite floats: <<1, 0>> is inf, <<-1, 0>> is -inf and <<0, 0>> is   *)
(* nan.  Rounding is not modelled, with one exception that decides         *)
(* behaviour: whether the LU factorisation inside numpy.linalg.inv sees an *)
(* exactly-zero pivot (see Inv).                                           *)
(*                                                                         *)
(* Strings.  A Python str is a sequence of one-character strings.          *)
(* Arrays.   A numpy array is [nd |-> its number of dimensions, sh |-> its *)
(* shape, v |-> its elements in row-major order]; None is a value of the   *)
(* same form with nd = -1.                                                 *)
(***************************************************************************)
EXTENDS Integers, Sequences, FiniteSets, TLC

(***************************************************************************)
(* Generic helpers on sequences.                                           *)
(***************************************************************************)
Range(s) == {s[i] : i \in DOMAIN s}

\* F(v), with v evaluated once.
With(v, F(_)) == CHOOSE r \in {F(x) : x \in {v}} : TRUE

RECURSIVE SumSeq(_)
SumSeq(s) == IF s = <<>> THEN 0 ELSE Head(s) + SumSeq(Tail(s))

RECURSIVE Flatten(_)
Flatten(ss) == IF ss = <<>> THEN <<>> ELSE Head(ss) \o Flatten(Tail(ss))

Abs(n) == IF n < 0 THEN -n ELSE n

RECURSIVE GCD(_, _)
GCD(a, b) == IF b = 0 THEN a ELSE GCD(b, a % b)

(***************************************************************************)
(* float64 values as extended rationals.                                   *)
(***************************************************************************)
NaN == <<0, 0>>
PosInf == <<1, 0>>
NegInf == <<-1, 0>>

Sign(n) == IF n > 0 THEN 1 ELSE IF n < 0 THEN -1 ELSE 0

\* The value n/d in lowest terms; d = 0 gives inf, -inf or nan by the sign of n.
Q(n, d) ==
    IF d = 0 THEN <<Sign(n), 0>>
    ELSE LET g == GCD(Abs(n), Abs(d))
             s == IF d < 0 THEN -1 ELSE 1
         IN  <<(s * n) \div g, (s * d) \div g>>

R(n) == <<n, 1>>
Zero == R(0)
One == R(1)

IsFinite(a) == a[2] # 0
IsNaN(a) == a = NaN
IsZero(a) == a[2] # 0 /\ a[1] = 0

RAdd(a, b) ==
    IF IsNaN(a) \/ IsNaN(b) THEN NaN
    ELSE IF ~IsFinite(a) /\ ~IsFinite(b) THEN (IF a = b THEN a ELSE NaN)
    ELSE IF ~IsFinite(a) THEN a
    ELSE IF ~IsFinite(b) THEN b
    ELSE Q(a[1] * b[2] + b[1] * a[2], a[2] * b[2])

RNeg(a) == <<-a[1], a[2]>>

RSub(a, b) == RAdd(a, RNeg(b))

RMul(a, b) ==
    IF IsNaN(a) \/ IsNaN(b) THEN NaN
    ELSE IF ~IsFinite(a) \/ ~IsFinite(b)
         THEN <<Sign(a[1]) * Sign(b[1]), 0>>     \* inf * 0 is nan
    ELSE Q(a[1] * b[1], a[2] * b[2])

\* numpy's elementwise true division: x/0 is inf or -inf, 0/0 is nan.
RDiv(a, b) ==
    IF IsNaN(a) \/ IsNaN(b) THEN NaN
    ELSE IF ~IsFinite(b) THEN (IF IsFinite(a) THEN Zero ELSE NaN)
    ELSE IF ~IsFinite(a) THEN (IF b[1] < 0 THEN RNeg(a) ELSE a)
    ELSE IF b[1] = 0 THEN <<Sign(a[1]), 0>>
    ELSE Q(a[1] * b[2], a[2] * b[1])

RLess(a, b) == IsFinite(a) /\ IsFinite(b) /\ a[1] * b[2] < b[1] * a[2]

RAbs(a) == <<Abs(a[1]), a[2]>>

RECURSIVE RPowNat(_, _)
RPowNat(a, k) == IF k = 0 THEN One ELSE RMul(a, RPowNat(a, k - 1))

RECURSIVE RSum(_)
RSum(s) == IF s = <<>> THEN Zero ELSE RAdd(Head(s), RSum(Tail(s)))

IsInteger(a) == a[2] = 1

RECURSIVE IsPow2(_)
IsPow2(d) == d = 1 \/ (d > 1 /\ d % 2 = 0 /\ IsPow2(d \div 2))

\* A finite value float64 holds exactly (for the small magnitudes of the model):
\* a dyadic rational.
IsDyadic(a) == IsFinite(a) /\ IsPow2(a[2])

(***************************************************************************)
(* Matrices: a sequence of rows, each a sequence of values.                *)
(***************************************************************************)
NRows(A) == Len(A)
NCols(A) == IF A = <<>> THEN 0 ELSE Len(A[1])

Transpose(A) == [j \in 1..NCols(A) |-> [i \in 1..NRows(A) |-> A[i][j]]]

Dot(u, v) == RSum([i \in 1..Len(u) |-> RMul(u[i], v[i])])

\* A @ B for A (n x k) and B (k x m).
MatMul(A, B) ==
    [i \in 1..NRows(A) |-> [j \in 1..NCols(B) |->
        RSum([l \in 1..NCols(A) |-> RMul(A[i][l], B[l][j])])]]

Identity(n) == [i \in 1..n |-> [j \in 1..n |-> IF i = j THEN One ELSE Zero]]

AllFinite(A) == \A i \in 1..NRows(A) : \A j \in 1..NCols(A) : IsFinite(A[i][j])

(***************************************************************************)
(* numpy.linalg.inv (LAPACK gesv): LU factorisation with partial pivoting, *)
(* then the solve against the identity; here Gauss-Jordan elimination on   *)
(* [A | I] with the same pivots.  LAPACK reports a singular matrix only    *)
(* when a pivot is EXACTLY zero.  In float64 that is certain only while    *)
(* every multiplier a[i][k] / a[k][k] of the factorisation is a dyadic     *)
(* rational (the elimination is then exact); once a multiplier has been    *)
(* rounded, a pivot that is zero over the rationals is either zero or a    *)
(* rounding residue, and with a residue inv returns a matrix of huge       *)
(* entries and no error.  `residue` is that outcome: Zero for an exactly   *)
(* zero pivot, otherwise the value the pivot is left with.                 *)
(***************************************************************************)
LUResidues == {Zero, <<1, 64>>, <<-1, 64>>}

\* The first row i >= k with the largest |A[i][k]| (LAPACK's idamax).
PivotRow(A, k) ==
    LET n == NRows(A)
        best(i) == \A j \in k..n :
                      /\ ~RLess(RAbs(A[i][k]), RAbs(A[j][k]))
                      /\ (j < i => RLess(RAbs(A[j][k]), RAbs(A[i][k])))
    IN  CHOOSE i \in k..n : best(i)

SwapRows(A, i, j) ==
    [r \in 1..NRows(A) |-> IF r = i THEN A[j] ELSE IF r = j THEN A[i] ELSE A[r]]

\* One elimination step on the augmented matrix, pivot already at A[k][k].
Eliminate(A, k) ==
    LET piv == A[k][k]
        prow == [j \in 1..NCols(A) |-> RDiv(A[k][j], piv)]
    IN  [i \in 1..NRows(A) |->
            IF i = k THEN prow
            ELSE [j \in 1..NCols(A) |-> RSub(A[i][j], RMul(A[i][k], prow[j]))]]

\* Whether every multiplier of step k (rows below the pivot) is exact in float64.
ExactStep(A, k) == \A i \in (k + 1)..NRows(A) : IsDyadic(RDiv(A[i][k], A[k][k]))

RECURSIVE GaussJordan(_, _, _, _)
GaussJordan(A, k, exact, residue) ==
    IF k > NRows(A) THEN [singular |-> FALSE, aug |-> A]
    ELSE With(SwapRows(A, k, PivotRow(A, k)),
              LAMBDA B :
                 IF IsZero(B[k][k])
                 THEN IF exact \/ residue = Zero
                      THEN [singular |-> TRUE, aug |-> B]
                      ELSE With(Eliminate([B EXCEPT ![k][k] = residue], k),
                                LAMBDA E : GaussJordan(E, k + 1, FALSE, residue))
                 ELSE With(<<Eliminate(B, k), exact /\ ExactStep(B, k)>>,
                           LAMBDA E : GaussJordan(E[1], k + 1, E[2], residue)))

Inv(A, residue) ==
    LET n == NRows(A)
    IN  IF ~AllFinite(A)
        THEN [err |-> "none", val |-> [i \in 1..n |-> [j \in 1..n |-> NaN]]]
        ELSE With(GaussJordan([i \in 1..n |-> A[i] \o Identity(n)[i]], 1, TRUE, residue),
                  LAMBDA gj :
                     IF gj.singular THEN [err |-> "LinAlgError", val |-> <<>>]
                     ELSE [err |-> "none",
                           val |-> [i \in 1..n |-> SubSeq(gj.aug[i], n + 1, 2 * n)]])

\* Whether A is singular over the rationals (no rounding anywhere).
IsSingular(A) == GaussJordan([i \in 1..NRows(A) |-> A[i]], 1, TRUE, Zero).singular

(***************************************************************************)
(* Python values: None, numpy arrays, str.                                 *)
(***************************************************************************)
None == [nd |-> -1, sh |-> <<>>, v |-> <<>>]

\* Arrays from nested sequences (no array of the model has an empty axis).
Arr0(x) == [nd |-> 0, sh |-> <<>>, v |-> <<x>>]
Arr1(xs) == [nd |-> 1, sh |-> <<Len(xs)>>, v |-> xs]
Arr2(rows) == [nd |-> 2, sh |-> <<Len(rows), Len(rows[1])>>, v |-> Flatten(rows)]
Arr3(blocks) ==
    [nd |-> 3, sh |-> <<Len(blocks), Len(blocks[1]), Len(blocks[1][1])>>,
     v |-> Flatten([i \in DOMAIN blocks |-> Flatten(blocks[i])])]

\* a.shape
Shape(a) == a.sh

\* len(a.T): the size of the LAST axis of a (a.T reverses the axes).
LenT(a) == a.sh[a.nd]

\* The rows of a 2-dimensional array, and a[i][j][k] of a 3-dimensional one.
Rows(a) == [i \in 1..a.sh[1] |-> [j \in 1..a.sh[2] |-> a.v[(i - 1) * a.sh[2] + j]]]
At3(a, i, j, k) == a.v[((i - 1) * a.sh[2] + (j - 1)) * a.sh[3] + k]

\* a.T for a 2-dimensional a, as the sequence of its columns.
Columns(a) == Transpose(Rows(a))

Letters == << "a", "b", "c", "d", "e", "f", "g", "h", "i", "j", "k", "l", "m",
              "n", "o", "p", "q", "r", "s", "t", "u", "v", "w", "x", "y", "z" >>
Digits == << "0", "1", "2", "3", "4", "5", "6", "7", "8", "9" >>

IsLetter(c) == c \in Range(Letters)
IsDigit(c) == c \in Range(Digits)
DigitVal(c) == (CHOOSE i \in DOMAIN Digits : Digits[i] = c) - 1

\* str.split('+')
RECURSIVE Split(_)
Split(s) ==
    IF "+" \notin Range(s) THEN <<s>>
    ELSE LET i == CHOOSE k \in DOMAIN s : s[k] = "+" /\ \A j \in 1..(k - 1) : s[j] # "+"
         IN  <<SubSeq(s, 1, i - 1)>> \o Split(SubSeq(s, i + 1, Len(s)))

\* str.strip()
RECURSIVE Strip(_)
Strip(s) ==
    IF s = <<>> THEN s
    ELSE IF Head(s) = " " THEN Strip(Tail(s))
    ELSE IF s[Len(s)] = " " THEN Strip(SubSeq(s, 1, Len(s) - 1))
    ELSE s

\* A variant that leaves the term as it is written, '^' included.
KeepCaret(s) == s

\* str.replace('^', '**')
RECURSIVE ReplaceCaret(_)
ReplaceCaret(s) ==
    IF s = <<>> THEN s
    ELSE (IF Head(s) = "^" THEN <<"*", "*">> ELSE <<Head(s)>>) \o ReplaceCaret(Tail(s))

\* A variant of the term list without the strip of each term.
TermsUnstripped(model) == <<<<"_", "b", "i", "a", "s">>>> \o Split(model)

\* self._terms = ['_bias'] + [t.strip() for t in model.split('+')]
BiasName == <<"_", "b", "i", "a", "s">>
Terms(model) == <<BiasName>> \o [i \in DOMAIN Split(model) |-> Strip(Split(model)[i])]

\* A variant of the variables: the distinct letters in their order of first
\* appearance in the model string (no sort).
VariablesByAppearance(model) ==
    LET first == SelectSeq([p \in 1..Len(model) |-> p],
                           LAMBDA p : IsLetter(model[p])
                                      /\ \A q \in 1..(p - 1) : model[q] # model[p])
    IN  [i \in DOMAIN first |-> model[first[i]]]

\* self.variables = np.unique(re.findall('[a-z]', model)).tolist()
Variables(model) == SelectSeq(Letters, LAMBDA c : c \in Range(model))

(***************************************************************************)
(* eval(term, namespace): Python's expression evaluator, for the part of   *)
(* the expression grammar written with names, decimal literals, the        *)
(* operators * / % - ** and parentheses (exponents: integers).             *)
(* Python compiles the whole expression first, so a SyntaxError comes      *)
(* before any error of the evaluation; the evaluation goes left to right.  *)
(* Not modelled: calls, attribute access, subscripts, the other operators, *)
(* exponent/hex/complex literals, builtin names.                           *)
(***************************************************************************)
IsNameStart(c) == IsLetter(c) \/ c = "_"
IsNameChar(c) == IsLetter(c) \/ IsDigit(c) \/ c = "_"

\* The length of the longest prefix of s whose characters all satisfy P.
PrefixLen(s, P(_)) ==
    CHOOSE n \in 0..Len(s) : /\ \A i \in 1..n : P(s[i])
                             /\ (n = Len(s) \/ ~P(s[n + 1]))

RECURSIVE DecimalValue(_)
DecimalValue(ds) ==
    IF ds = <<>> THEN 0 ELSE 10 * DecimalValue(SubSeq(ds, 1, Len(ds) - 1)) + DigitVal(ds[Len(ds)])

RECURSIVE Pow10(_)
Pow10(k) == IF k = 0 THEN 1 ELSE 10 * Pow10(k - 1)

Drop(s, k) == SubSeq(s, k + 1, Len(s))

\* The number token at the head of s: [len, tok].
NumberToken(s) ==
    LET n1 == PrefixLen(s, IsDigit)
        rest == Drop(s, n1)
        dot == rest # <<>> /\ Head(rest) = "."
        n2 == IF dot THEN PrefixLen(Tail(rest), IsDigit) ELSE 0
        d1 == SubSeq(s, 1, n1)
        d2 == IF dot THEN SubSeq(rest, 2, n2 + 1) ELSE <<>>
        len == n1 + (IF dot THEN 1 + n2 ELSE 0)
        leadingZero == ~dot /\ n1 > 1 /\ d1[1] = "0" /\ DecimalValue(d1) # 0
    IN  IF n1 + n2 = 0 \/ leadingZero
        THEN [len |-> 1, tok |-> [t |-> "bad"]]
        ELSE [len |-> len, tok |-> [t |-> "num", v |-> Q(DecimalValue(d1 \o d2), Pow10(n2))]]

RECURSIVE Tokenize(_)
Tokenize(s) ==
    IF s = <<>> THEN <<>>
    ELSE LET c == Head(s) IN
         IF c = " " THEN Tokenize(Tail(s))
         ELSE IF IsNameStart(c)
         THEN LET n == PrefixLen(s, IsNameChar)
              IN  <<[t |-> "name", s |-> SubSeq(s, 1, n)]>> \o Tokenize(Drop(s, n))
         ELSE IF IsDigit(c) \/ c = "."
         THEN LET nt == NumberToken(s) IN <<nt.tok>> \o Tokenize(Drop(s, nt.len))
         ELSE IF c = "*" /\ Len(s) > 1 /\ s[2] = "*"
         THEN <<[t |-> "op", s |-> "**"]>> \o Tokenize(Drop(s, 2))
         ELSE IF c \in {"*", "/", "%", "-", "(", ")"}
         THEN <<[t |-> "op", s |-> c]>> \o Tokenize(Tail(s))
         ELSE <<[t |-> "bad"]>> \o Tokenize(Tail(s))

IsOp(toks, i, ops) == i <= Len(toks) /\ toks[i].t = "op" /\ toks[i].s \in ops

ParseFail == [ok |-> FALSE]
Parsed(ast, pos) == [ok |-> TRUE, pos |-> pos, ast |-> ast]

RECURSIVE PExpr(_, _), PExprRest(_, _, _), PTerm(_, _), PTermRest(_, _, _)
RECURSIVE PFactor(_, _), PPower(_, _), PAtom(_, _)

\* atom: NAME | NUMBER | '(' expr ')'
PAtom(toks, i) ==
    IF i > Len(toks) THEN ParseFail
    ELSE IF toks[i].t = "name" THEN Parsed([op |-> "name", id |-> toks[i].s], i + 1)
    ELSE IF toks[i].t = "num" THEN Parsed([op |-> "num", v |-> toks[i].v], i + 1)
    ELSE IF IsOp(toks, i, {"("})
    THEN With(PExpr(toks, i + 1),
              LAMBDA e : IF e.ok /\ IsOp(toks, e.pos, {")"})
                         THEN Parsed(e.ast, e.pos + 1) ELSE ParseFail)
    ELSE ParseFail

\* power: atom ['**' factor]
PPower(toks, i) ==
    With(PAtom(toks, i),
         LAMBDA a :
            IF a.ok /\ IsOp(toks, a.pos, {"**"})
            THEN With(PFactor(toks, a.pos + 1),
                      LAMBDA f : IF f.ok
                                 THEN Parsed([op |-> "**", l |-> a.ast, r |-> f.ast], f.pos)
                                 ELSE ParseFail)
            ELSE a)

\* factor: '-' factor | power
PFactor(toks, i) ==
    IF IsOp(toks, i, {"-"})
    THEN With(PFactor(toks, i + 1),
              LAMBDA f : IF f.ok THEN Parsed([op |-> "neg", l |-> f.ast], f.pos)
                         ELSE ParseFail)
    ELSE PPower(toks, i)

\* term: factor (('*' | '/' | '%') factor)*
PTermRest(toks, left, i) ==
    IF IsOp(toks, i, {"*", "/", "%"})
    THEN With(PFactor(toks, i + 1),
              LAMBDA f : IF f.ok
                         THEN PTermRest(toks, [op |-> toks[i].s, l |-> left, r |-> f.ast], f.pos)
                         ELSE ParseFail)
    ELSE Parsed(left, i)

PTerm(toks, i) ==
    With(PFactor(toks, i), LAMBDA f : IF f.ok THEN PTermRest(toks, f.ast, f.pos) ELSE ParseFail)

\* arith_expr: term ('-' term)*      (a '+' never reaches eval: split('+') took it)
PExprRest(toks, left, i) ==
    IF IsOp(toks, i, {"-"})
    THEN With(PTerm(toks, i + 1),
              LAMBDA t : IF t.ok
                         THEN PExprRest(toks, [op |-> "-", l |-> left, r |-> t.ast], t.pos)
                         ELSE ParseFail)
    ELSE Parsed(left, i)

PExpr(toks, i) ==
    With(PTerm(toks, i), LAMBDA t : IF t.ok THEN PExprRest(toks, t.ast, t.pos) ELSE ParseFail)

\* compile(source): the syntax tree, or no tree (a SyntaxError).
Compile(src) ==
    With(Tokenize(src),
         LAMBDA toks :
            IF \E i \in DOMAIN toks : toks[i].t = "bad" THEN ParseFail
            ELSE With(PExpr(toks, 1),
                      LAMBDA e : IF e.ok /\ e.pos = Len(toks) + 1 THEN e ELSE ParseFail))

(***************************************************************************)
(* Values of an evaluation: [k, v] with k = "py" (a Python number),        *)
(* "np0" (a numpy scalar) or "a" (an array, v its elements in row-major    *)
(* order; all arrays of one namespace have the same shape).                *)
(***************************************************************************)
PyNum(r) == [k |-> "py", v |-> r]

JoinKind(x, y) ==
    IF x.k = "a" \/ y.k = "a" THEN "a"
    ELSE IF x.k = "np0" \/ y.k = "np0" THEN "np0" ELSE "py"

Elementwise(F(_, _), x, y) ==
    IF x.k = "a" /\ y.k = "a" THEN [k |-> "a", v |-> [i \in DOMAIN x.v |-> F(x.v[i], y.v[i])]]
    ELSE IF x.k = "a" THEN [k |-> "a", v |-> [i \in DOMAIN x.v |-> F(x.v[i], y.v)]]
    ELSE IF y.k = "a" THEN [k |-> "a", v |-> [i \in DOMAIN y.v |-> F(x.v, y.v[i])]]
    ELSE [k |-> JoinKind(x, y), v |-> F(x.v, y.v)]

\* A result: the value returned, or the exception raised (its class, its message
\* and the numbers formatted into the message).
Good(val) == [err |-> "none", msg |-> "", info |-> <<>>, val |-> val]
Raise(type, msg, info) == [err |-> type, msg |-> msg, info |-> info, val |-> None]

\* a ** b for an integer b (float64: 0.0 ** -1 is inf).
RPowOf(a, b) == IF b[1] >= 0 THEN RPowNat(a, b[1]) ELSE RDiv(One, RPowNat(a, -b[1]))

\* a % b of floats (np.mod, Python %): a - b * floor(a / b), of the sign of b;
\* nan for b = 0 and for an a that is not finite.
RMod(a, b) ==
    IF ~IsFinite(a) \/ IsNaN(b) \/ IsZero(b) THEN NaN
    ELSE IF ~IsFinite(b) THEN (IF IsZero(a) \/ Sign(a[1]) = Sign(b[1]) THEN a ELSE b)
    ELSE RSub(a, RMul(b, R((a[1] * b[2] * Sign(b[1])) \div (a[2] * Abs(b[1])))))

\* Every element of the value x satisfies P.
AllOf(x, P(_)) == IF x.k = "a" THEN \A i \in DOMAIN x.v : P(x.v[i]) ELSE P(x.v)

BinOp(op, x, y) ==
    CASE op = "*" -> Good(Elementwise(RMul, x, y))
      [] op = "-" -> Good(Elementwise(RSub, x, y))
      [] op = "/" -> IF x.k = "py" /\ y.k = "py" /\ IsZero(y.v)
                     THEN Raise("ZeroDivisionError", "division by zero", <<>>)
                     ELSE Good(Elementwise(RDiv, x, y))
      [] op = "%" -> IF x.k = "py" /\ y.k = "py" /\ IsZero(y.v)
                     THEN Raise("ZeroDivisionError", "modulo by zero", <<>>)
                     ELSE Good(Elementwise(RMod, x, y))
      [] op = "**" -> IF ~AllOf(y, IsInteger)
                      THEN Raise("OutOfModel", "exponent", <<>>)
                      ELSE IF x.k = "py" /\ y.k = "py" /\ IsZero(x.v) /\ y.v[1] < 0
                      THEN Raise("ZeroDivisionError",
                                 "0.0 cannot be raised to a negative power", <<>>)
                      ELSE Good(Elementwise(RPowOf, x, y))

RECURSIVE EvalAst(_, _)
EvalAst(ast, ns) ==
    CASE ast.op = "num" -> Good(PyNum(ast.v))
      [] ast.op = "name" ->
            IF ast.id \in DOMAIN ns THEN Good(ns[ast.id])
            ELSE Raise("NameError", "name is not defined", <<>>)
      [] ast.op = "neg" ->
            With(EvalAst(ast.l, ns),
                 LAMBDA x : IF x.err # "none" THEN x
                            ELSE Good(Elementwise(RSub, PyNum(Zero), x.val)))
      [] OTHER ->
            With(EvalAst(ast.l, ns),
                 LAMBDA x :
                    IF x.err # "none" THEN x
                    ELSE With(EvalAst(ast.r, ns),
                              LAMBDA y : IF y.err # "none" THEN y
                                         ELSE BinOp(ast.op, x.val, y.val)))

\* eval(src, ns)
Eval(src, ns) ==
    With(Compile(src),
         LAMBDA c : IF ~c.ok THEN Raise("SyntaxError", "invalid syntax", <<>>)
                    ELSE EvalAst(c.ast, ns))

(***************************************************************************)
(* PolyModel.                                                              *)
(*                                                                         *)
(* An operation returns [err |-> "none", ...] or the exception it raises,  *)
(* [err |-> its class, msg |-> its message and the values formatted into   *)
(* it].  The messages of the assert statements:                            *)
(***************************************************************************)
MsgBoth == "Provide features and targets, or constants, but not both."
MsgProvide == "Provide features and targets."
MsgFeatures2D == "features must be 2 dimensional"
MsgTargets2D == "targets must be 2 dimensional"
MsgFeatureDim == "The feature dimension must match the number of model variables."
MsgConstants2D == "Constants must be 2-dimensional"
MsgConstantsRows == "The feature dimension of constants must be 1 element greater than the number of model terms."

Ones(n) == [i \in 1..n |-> One]

\* np.hstack of evaluated terms that are all columns of n elements: the
\* n x (number of terms) matrix whose column i is the i-th term.
HStack(cols, n) == [r \in 1..n |-> [i \in DOMAIN cols |-> cols[i].v[r]]]

\* The evaluations of the terms ts[1..] in order, stopping at the first that
\* raises: the sequence of their values, or the exception.
RECURSIVE EvalAll(_, _)
EvalAll(ts, ns) ==
    IF ts = <<>> THEN Good(<<>>)
    ELSE With(Eval(Head(ts), ns),
              LAMBDA h :
                 IF h.err # "none" THEN h
                 ELSE With(EvalAll(Tail(ts), ns),
                           LAMBDA rest : IF rest.err # "none" THEN rest
                                         ELSE Good(<<h.val>> \o rest.val)))

\* least_squares(p, q) = np.linalg.inv(p.T @ p) @ (p.T @ q).  The left operand of
\* the outer @ is evaluated first, so a singular p.T @ p is reported before a row
\* mismatch of p and q.
XtX(p) == MatMul(Transpose(p), p)
XtY(p, q) == MatMul(Transpose(p), q)

\* A variant that solves against the running sums of the target columns
\* (np.cumsum(q, 1)): column t of the solution depends on the columns before it.
least_squares_cumulative(p, q, residue) ==
    With(Inv(XtX(p), residue),
         LAMBDA inv :
            IF inv.err # "none" THEN Raise("LinAlgError", "Singular matrix", <<>>)
            ELSE IF NRows(q) # NRows(p)
            THEN Raise("ValueError", "matmul: mismatch in its core dimension",
                       <<NRows(p), NRows(q)>>)
            ELSE Good(MatMul(inv.val,
                             XtY(p, [n \in 1..NRows(q) |-> [t \in 1..NCols(q) |->
                                        RSum(SubSeq(q[n], 1, t))]]))))

\* A regularised variant, inv(p.T @ p + I) @ (p.T @ q): the ridge solution, which
\* the normal equations tell apart from least_squares.
least_squares_ridge(p, q, residue) ==
    With(Inv([i \in 1..NCols(p) |-> [j \in 1..NCols(p) |->
                 RAdd(XtX(p)[i][j], Identity(NCols(p))[i][j])]], residue),
         LAMBDA inv :
            IF inv.err # "none" THEN Raise("LinAlgError", "Singular matrix", <<>>)
            ELSE IF NRows(q) # NRows(p)
            THEN Raise("ValueError", "matmul: mismatch in its core dimension",
                       <<NRows(p), NRows(q)>>)
            ELSE Good(MatMul(inv.val, XtY(p, q))))

least_squares(p, q, residue) ==
    With(Inv(XtX(p), residue),
         LAMBDA inv :
            IF inv.err # "none" THEN Raise("LinAlgError", "Singular matrix", <<>>)
            ELSE IF NRows(q) # NRows(p)
            THEN Raise("ValueError", "matmul: mismatch in its core dimension",
                       <<NRows(p), NRows(q)>>)
            ELSE Good(MatMul(inv.val, XtY(p, q))))

\* The fit-time namespace: setattr(self, ll, np.expand_dims(ff, 1)) binds '_bias'
\* and the variables, in sorted order, to the columns of _features_with_bias.
FitNames(variables) == <<BiasName>> \o [i \in DOMAIN variables |-> <<variables[i]>>]

FitNamespace(variables, withBias) ==
    LET names == FitNames(variables)
        cols == Transpose(withBias)
    IN  [nm \in Range(names) |->
            [k |-> "a", v |-> cols[CHOOSE i \in DOMAIN names : names[i] = nm]]]

\* The object after the fit.
FittedObject(model, features, targets, withBias, ns, computed, constants) ==
    [model |-> model, _terms |-> Terms(model), variables |-> Variables(model),
     features |-> features, targets |-> targets,
     _features_with_bias |-> Arr2(withBias), attrs |-> ns,
     _features_computed |-> Arr2(computed), constants |-> Arr2(constants)]

\* Lines 187-188: np.hstack([np.ones(len(features))[:, None], features]).
FeaturesWithBias(features) ==
    [r \in 1..features.sh[1] |-> <<One>> \o Rows(features)[r]]

\* A variant of the design matrix with the bias column stacked last.
FeaturesComputedBiasLast(model, features) ==
    LET terms == Terms(model)
        mod_terms == [i \in DOMAIN terms |-> Strip(ReplaceCaret(terms[i]))]
    IN  With(FitNamespace(Variables(model), FeaturesWithBias(features)),
          LAMBDA ns :
            With(EvalAll(mod_terms, ns),
              LAMBDA fc :
                 IF fc.err # "none" THEN fc
                 ELSE IF \E i \in DOMAIN fc.val : fc.val[i].k # "a"
                 THEN Raise("ValueError",
                            "all the input arrays must have same number of dimensions", <<>>)
                 ELSE Good(HStack(Tail(fc.val) \o <<Head(fc.val)>>, features.sh[1]))))

\* Lines 193-204: the terms evaluated on the columns of the features and stacked
\* into the design matrix _features_computed, or the exception.
FeaturesComputed(model, features) ==
    LET terms == Terms(model)
        mod_terms == [i \in DOMAIN terms |-> Strip(ReplaceCaret(terms[i]))]
    IN  With(FitNamespace(Variables(model), FeaturesWithBias(features)),
          LAMBDA ns :
            With(EvalAll(mod_terms, ns),
              LAMBDA fc :
                 IF fc.err # "none" THEN fc
                 ELSE IF \E i \in DOMAIN fc.val : fc.val[i].k # "a"
                 THEN Raise("ValueError",
                            "all the input arrays must have same number of dimensions", <<>>)
                 ELSE Good(HStack(fc.val, features.sh[1]))))

\* Lines 193-206: the design matrix and the constants.
SolveTerms(model, features, targets, residue) ==
    With(FeaturesComputed(model, features),
      LAMBDA fc :
         IF fc.err # "none" THEN fc
         ELSE With(least_squares(fc.val, Rows(targets), residue),
                LAMBDA ls :
                   IF ls.err # "none" THEN ls
                   ELSE Good(FittedObject(model, features, targets,
                                          FeaturesWithBias(features),
                                          FitNamespace(Variables(model),
                                                       FeaturesWithBias(features)),
                                          fc.val, ls.val))))

\* A variant of the solve branch whose feature-dimension assert only rejects
\* features with FEWER columns than the model has variables (zip then drops the
\* surplus columns).
SolveLenient(model, features, targets, residue) ==
    IF features = None \/ targets = None
    THEN Raise("AssertionError", MsgProvide, <<>>)
    ELSE IF features.nd # 2 THEN Raise("AssertionError", MsgFeatures2D, <<>>)
    ELSE IF targets.nd # 2 THEN Raise("AssertionError", MsgTargets2D, <<>>)
    ELSE IF LenT(features) < Len(Variables(model))
    THEN Raise("AssertionError", MsgFeatureDim,
               <<Shape(features)[2], Len(Variables(model))>>)
    ELSE SolveTerms(model, features, targets, residue)

\* The solve branch of __init__ (lines 183-206), after lines 174-180.
Solve(model, features, targets, residue) ==
    IF features = None \/ targets = None
    THEN Raise("AssertionError", MsgProvide, <<>>)
    ELSE IF features.nd # 2 THEN Raise("AssertionError", MsgFeatures2D, <<>>)
    ELSE IF targets.nd # 2 THEN Raise("AssertionError", MsgTargets2D, <<>>)
    ELSE IF LenT(features) # Len(Variables(model))
    THEN Raise("AssertionError", MsgFeatureDim,
               <<Shape(features)[2], Len(Variables(model))>>)
    ELSE SolveTerms(model, features, targets, residue)

\* A variant of the initialize branch that compares the rows of the constants
\* with the number of VARIABLES plus one (the number its message prints).
InitializeByVariables(model, constants) ==
    IF constants.nd # 2 THEN Raise("AssertionError", MsgConstants2D, <<>>)
    ELSE IF Shape(constants)[1] # Len(Variables(model)) + 1
    THEN Raise("AssertionError", MsgConstantsRows,
               <<Shape(constants)[1], Len(Variables(model))>>)
    ELSE Good([model |-> model, _terms |-> Terms(model), variables |-> Variables(model),
               constants |-> constants])

\* A variant of the initialize branch that stores the rows of the constants in
\* reverse order (the bias coefficient last).
InitializeReversed(model, constants) ==
    IF constants.nd # 2 THEN Raise("AssertionError", MsgConstants2D, <<>>)
    ELSE IF Shape(constants)[1] # Len(Terms(model))
    THEN Raise("AssertionError", MsgConstantsRows,
               <<Shape(constants)[1], Len(Variables(model))>>)
    ELSE Good([model |-> model, _terms |-> Terms(model), variables |-> Variables(model),
               constants |-> Arr2([i \in 1..constants.sh[1] |->
                                     Rows(constants)[constants.sh[1] + 1 - i]])])

\* The initialize branch of __init__ (lines 208-212), after lines 174-180.
Initialize(model, constants) ==
    IF constants.nd # 2 THEN Raise("AssertionError", MsgConstants2D, <<>>)
    ELSE IF Shape(constants)[1] # Len(Terms(model))
    THEN Raise("AssertionError", MsgConstantsRows,
               <<Shape(constants)[1], Len(Variables(model))>>)
    ELSE Good([model |-> model, _terms |-> Terms(model), variables |-> Variables(model),
               constants |-> constants])

\* A variant of __init__ whose `solve` flag needs BOTH features and targets (and
\* instead of or): constants given together with features alone are accepted.
PolyModelSolveNeedsBoth(model, features, targets, constants, residue) ==
    LET solve == features # None /\ targets # None
        initialize == constants # None
    IN  IF solve = initialize THEN Raise("AssertionError", MsgBoth, <<>>)
        ELSE IF solve THEN Solve(model, features, targets, residue)
        ELSE Initialize(model, constants)

\* PolyModel.__init__(model, features, targets, constants): the object, or the
\* exception.
PolyModel(model, features, targets, constants, residue) ==
    LET solve == features # None \/ targets # None
        initialize == constants # None
    IN  IF solve = initialize THEN Raise("AssertionError", MsgBoth, <<>>)
        ELSE IF solve THEN Solve(model, features, targets, residue)
        ELSE Initialize(model, constants)

\* zip(self.variables, data.T) in run: each variable's value.
Mapping(variables, data) ==
    [nm \in {<<variables[i]>> : i \in DOMAIN variables} |->
        LET i == CHOOSE j \in DOMAIN variables : <<variables[j]>> = nm
        IN  CASE data.nd = 1 -> [k |-> "np0", v |-> data.v[i]]
              [] data.nd = 2 -> [k |-> "a", v |-> Columns(data)[i]]
              [] data.nd = 3 ->
                    [k |-> "a",
                     v |-> Flatten([b \in 1..data.sh[2] |->
                                      [a \in 1..data.sh[1] |-> At3(data, a, b, i)]])]]

\* A variant of lines 242-249 that iterates over the ROWS of the constants
\* (`for const in self.constants`) instead of the columns of constants.T.
PredictOverRows(self, data) ==
    LET n == Shape(data)[1]
        terms == [i \in 1..(Len(self._terms) - 1) |-> ReplaceCaret(self._terms[i + 1])]
    IN  With(EvalAll(terms, Mapping(self.variables, data)),
          LAMBDA vals :
             IF vals.err # "none" THEN vals
             ELSE IF \E i \in DOMAIN vals.val : vals.val[i].k # "a"
             THEN Raise("AxisError", "axis 1 is out of bounds for array of dimension 1", <<>>)
             ELSE IF data.nd = 3
             THEN Raise("ValueError",
                        "all the input arrays must have same number of dimensions", <<>>)
             ELSE With(<<HStack(<<[k |-> "a", v |-> Ones(n)]>> \o vals.val, n),
                         Rows(self.constants)>>,
                    LAMBDA fc :
                       IF \E t \in DOMAIN fc[2] : Len(fc[2][t]) # NCols(fc[1])
                       THEN Raise("ValueError", "operands could not be broadcast together", <<>>)
                       ELSE Good(Arr2([r \in 1..n |-> [t \in DOMAIN fc[2] |->
                                         Dot(fc[2][t], fc[1][r])]]))))

\* Lines 242-249 of run, for data that passed the assert.
Predict(self, data) ==
    LET n == Shape(data)[1]
        terms == [i \in 1..(Len(self._terms) - 1) |-> ReplaceCaret(self._terms[i + 1])]
    IN  With(EvalAll(terms, Mapping(self.variables, data)),
          LAMBDA vals :
             IF vals.err # "none" THEN vals
             ELSE IF \E i \in DOMAIN vals.val : vals.val[i].k # "a"
             THEN Raise("AxisError", "axis 1 is out of bounds for array of dimension 1", <<>>)
             ELSE IF data.nd = 3
             THEN Raise("ValueError",
                        "all the input arrays must have same number of dimensions", <<>>)
             ELSE With(<<HStack(<<[k |-> "a", v |-> Ones(n)]>> \o vals.val, n),
                         Columns(self.constants)>>,
                    LAMBDA fc :
                       IF \E t \in DOMAIN fc[2] : Len(fc[2][t]) # NCols(fc[1])
                       THEN Raise("ValueError", "operands could not be broadcast together", <<>>)
                       ELSE Good(Arr2([r \in 1..n |-> [t \in DOMAIN fc[2] |->
                                         Dot(fc[2][t], fc[1][r])]]))))

\* PolyModel.run(data): the prediction, or the exception.
run(self, data) ==
    IF data.nd = 0 THEN Raise("TypeError", "len() of unsized object", <<>>)
    ELSE IF LenT(data) # Len(self.variables)
    THEN IF data.nd = 1
         THEN Raise("IndexError", "tuple index out of range", <<>>)
         ELSE Raise("AssertionError", MsgFeatureDim, <<Shape(data)[2], Len(self.variables)>>)
    ELSE Predict(self, data)

\* A variant of the r2 formula whose sums run over the whole matrices (np.sum
\* without axis=0): every entry pools the residuals of all the columns.
RSquaredPooled(pred, y) ==
    LET n == NRows(y)
        all == Flatten(y)
        mean == RDiv(RSum(all), R(Len(all)))
        ssRes == RSum(Flatten([r \in 1..n |-> [t \in 1..NCols(y) |->
                                  RPowNat(RSub(pred[r][t], y[r][t]), 2)]]))
        ssTot == RSum([k \in DOMAIN all |-> RPowNat(RSub(all[k], mean), 2)])
    IN  [t \in 1..NCols(y) |-> RSub(One, RDiv(ssRes, ssTot))]

\* 1 - sum((pred - y)**2, 0) / sum((y - y.mean(0))**2, 0) for matrices pred and y
RSquared(pred, y) ==
    LET n == NRows(y)
        mean(t) == RDiv(RSum([r \in 1..n |-> y[r][t]]), R(n))
        ssRes(t) == RSum([r \in 1..n |-> RPowNat(RSub(pred[r][t], y[r][t]), 2)])
        ssTot(t) == With(mean(t),
                         LAMBDA m : RSum([r \in 1..n |-> RPowNat(RSub(y[r][t], m), 2)]))
    IN  [t \in 1..NCols(y) |-> RSub(One, RDiv(ssRes(t), ssTot(t)))]

\* A variant of r2 whose except clause swallows the exception and returns None.
r2Swallowing(self) ==
    IF "features" \notin DOMAIN self
    THEN Good(None)
    ELSE With(run(self, self.features),
              LAMBDA pred :
                 IF pred.err # "none" THEN Good(None)
                 ELSE With(<<Rows(pred.val), Rows(self.targets)>>,
                           LAMBDA py : Good(Arr1(RSquared(py[1], py[2])))))

\* PolyModel.r2: the T values, or the exception (re-raised after the print).
r2(self) ==
    IF "features" \notin DOMAIN self
    THEN Raise("AttributeError", "'PolyModel' object has no attribute 'features'", <<>>)
    ELSE With(run(self, self.features),
              LAMBDA pred :
                 IF pred.err # "none" THEN pred
                 ELSE With(<<Rows(pred.val), Rows(self.targets)>>,
                           LAMBDA py : Good(Arr1(RSquared(py[1], py[2])))))

(***************************************************************************)
(* Inputs.                                                                 *)
(***************************************************************************)
\* The integer matrix `rows` as a 2-dimensional array, the vector as a 1-dimensional.
IntArr2(rows) == Arr2([i \in DOMAIN rows |-> [j \in DOMAIN rows[i] |-> R(rows[i][j])]])
IntArr1(xs) == Arr1([i \in DOMAIN xs |-> R(xs[i])])

\* Every 2-dimensional array of n rows (n in ns), m columns and entries in vals.
Arrays2(ns, m, vals) ==
    UNION {{IntArr2(rows) : rows \in [1..n -> [1..m -> vals]]} : n \in ns}

ModelX == <<"x">>
ModelXY == <<"x", " ", "+", " ", "y">>
ModelYX == <<"y", " ", "+", " ", "x">>
ModelSquare == <<"x", "^", "2">>
ModelQuadratic == <<"x", " ", "+", " ", "x", "^", "2">>
ModelProduct == <<"x", " ", "+", " ", "x", "*", "y", "^", "2">>
ModelXYZ == <<"x", " ", "+", " ", "y", " ", "+", " ", "z">>

\* The examples of the docstring of __init__.
DocFeatures == IntArr2(<< <<4, 2>>, <<8, 2>>, <<9, 1>> >>)
DocTargets == IntArr2(<< <<1>>, <<4>>, <<7>> >>)
DocTargets2 == IntArr2(<< <<1, 8>>, <<4, 6>>, <<7, 5>> >>)

\* Arguments of __init__: [model, features, targets, constants].  Fit calls take
\* every pair of F and T (None included); preload calls every constants of C; and
\* the calls that give constants together with fit data take the samples FS, TS, CS.
InitArgs(M, F, T, C, FS, TS, CS) ==
    [model : M, features : F \cup {None}, targets : T \cup {None}, constants : {None}]
    \cup [model : M, features : {None}, targets : {None}, constants : C]
    \cup [model : M, features : FS \cup {None}, targets : TS \cup {None}, constants : CS]

MaxCalls == 3
MaxDataRows == 1

OddShapes ==
    { IntArr1(<<1>>), IntArr1(<<1, 2>>), IntArr1(<<0, 1, 2>>), Arr0(R(1)),
      Arr3(<< << <<R(1), R(2)>>, <<R(0), R(1)>> >> >>),
      Arr3(<< << <<R(1)>>, <<R(2)>> >>, << <<R(0)>>, <<R(1)>> >> >>) }

\* Inputs of run.
FitData ==
    Arrays2(1..MaxDataRows, 1, 0..2) \cup Arrays2(1..MaxDataRows, 2, 0..1) \cup OddShapes

LifeData ==
    { IntArr2(<< <<1>>, <<3>> >>), IntArr2(<< <<4, 2>>, <<1, 0>> >>), IntArr1(<<1, 2>>) }

LifeArgs ==
    InitArgs({ModelX, ModelXY, ModelSquare},
             {IntArr2(<< <<1>>, <<2>>, <<3>> >>), IntArr2(<< <<0>>, <<1>> >>), DocFeatures,
              IntArr2(<< <<0, 1>>, <<1, 2>> >>), IntArr1(<<1, 2>>)},
             {IntArr2(<< <<2>>, <<4>>, <<6>> >>), IntArr2(<< <<2>>, <<4>>, <<7>> >>),
              IntArr2(<< <<1>>, <<1>> >>), DocTargets, DocTargets2, IntArr1(<<1, 2>>)},
             {IntArr2(<< <<0>>, <<2>> >>), IntArr2(<< <<1, 0>>, <<2, 1>> >>),
              Arr2(<< <<Q(5, 2)>>, <<Q(3, 4)>>, <<Q(-9, 4)>> >>), IntArr1(<<0, 2>>)},
             {DocFeatures}, {DocTargets}, {IntArr2(<< <<0>>, <<2>> >>)})

FitArgs ==
    InitArgs({ModelX, ModelXY, ModelSquare, ModelQuadratic, ModelProduct, ModelXYZ},
             Arrays2(1..3, 1, 0..2) \cup Arrays2({2, 3}, 2, 0..1)
                 \cup {DocFeatures, IntArr1(<<1, 2>>), IntArr2(<< <<1, 0, 2>>, <<0, 1, 1>> >>)},
             Arrays2({2}, 1, 0..2) \cup Arrays2({3}, 1, 0..1) \cup Arrays2({2}, 2, 0..1)
                 \cup {DocTargets, DocTargets2, IntArr1(<<1, 2>>)},
             Arrays2({2, 3}, 1, 0..2) \cup Arrays2({2}, 2, -1..1)
                 \cup {IntArr2(<< <<1, 2>> >>), IntArr1(<<0, 2>>)},
             {DocFeatures}, {DocTargets}, {IntArr2(<< <<0>>, <<2>> >>)})

(***************************************************************************)
(* The life of one PolyModel object.                                       *)
(*   self   the object (a record of its attributes); None before the       *)
(*          construction and after a construction that raised              *)
(*   made   the construction call: [op, args, out], out the object or the  *)
(*          exception                                                      *)
(*   calls  the run and r2 calls on the object so far, in order, each      *)
(*          [op, data, out]                                                *)
(***************************************************************************)
VARIABLES self, made, calls

vars == <<self, made, calls>>

NoCall == [op |-> "none"]

Init ==
    /\ self = None
    /\ made = NoCall
    /\ calls = <<>>

\* m = PolyModel(model, features, targets, constants)
Construct(argset) ==
    /\ made = NoCall
    /\ \E a \in argset, residue \in LUResidues :
          \E out \in {PolyModel(a.model, a.features, a.targets, a.constants, residue)} :
             /\ made' = [op |-> "init", args |-> a, out |-> out]
             /\ self' = IF out.err = "none" THEN out.val ELSE None
    /\ UNCHANGED calls

\* The inputs of run on the object: those of `inputs` and its own features.
RunInputs(inputs) ==
    inputs \cup (IF "features" \in DOMAIN self THEN {self.features} ELSE {})

\* m.run(data)
RunCall(limit, inputs) ==
    /\ self # None
    /\ Len(calls) < limit
    /\ \E data \in RunInputs(inputs) :
          calls' = Append(calls, [op |-> "run", data |-> data, out |-> run(self, data)])
    /\ UNCHANGED <<self, made>>

\* m.r2
R2Call(limit) ==
    /\ self # None
    /\ Len(calls) < limit
    /\ calls' = Append(calls, [op |-> "r2", data |-> None, out |-> r2(self)])
    /\ UNCHANGED <<self, made>>

\* A variant of run that scales the stored constants in place (`const *= 2`)
\* while it computes the prediction.
RunScalingConstants ==
    /\ self # None
    /\ Len(calls) < MaxCalls
    /\ \E data \in RunInputs(LifeData) :
          calls' = Append(calls, [op |-> "run", data |-> data, out |-> run(self, data)])
    /\ self' = [self EXCEPT !.constants.v = [i \in DOMAIN @ |-> RMul(R(2), @[i])]]
    /\ UNCHANGED made

\* A variant of r2 that memoises its value in a new attribute of the object.
R2Caching ==
    /\ self # None
    /\ Len(calls) < MaxCalls
    /\ calls' = Append(calls, [op |-> "r2", data |-> None, out |-> r2(self)])
    /\ self' = [f \in DOMAIN self \cup {"_r2"} |->
                   IF f = "_r2" THEN r2(self) ELSE self[f]]
    /\ UNCHANGED made

ConstructLife == Construct(LifeArgs)
Run == RunCall(MaxCalls, LifeData)
R2 == R2Call(MaxCalls)

Next == ConstructLife \/ Run \/ R2

Spec == Init /\ [][Next]_vars

\* Single calls over exhaustive small inputs: every fit and preload of FitArgs,
\* followed by at most one run or r2.
ConstructFit == Construct(FitArgs)
RunOnce == RunCall(1, FitData)
R2Once == R2Call(1)

NextFit == ConstructFit \/ RunOnce \/ R2Once

SpecFit == Init /\ [][NextFit]_vars

\* Every model string of at most MaxModelLen characters of ParseAlphabet, and two
\* longer ones; each fitted to one-column and to two-column features and preloaded
\* with constants of two and of three rows, then followed by at most one call.
MaxModelLen == 3

ParseAlphabet == {"x", "y", "+", " ", "*", "^", "2", "%", "-"}

ModelParen == <<"(", "x", " ", "-", " ", "2", ")", "*", "y">>

ParseModels ==
    UNION {[1..k -> ParseAlphabet] : k \in 0..MaxModelLen} \cup {ModelYX, ModelParen}

ParseArgs ==
    [model : ParseModels, features : {IntArr2(<< <<0>>, <<1>> >>)},
     targets : {IntArr2(<< <<1>>, <<2>> >>)}, constants : {None}]
    \cup [model : ParseModels, features : {IntArr2(<< <<0, 1>>, <<1, 1>>, <<1, 0>> >>)},
          targets : {IntArr2(<< <<1>>, <<2>>, <<0>> >>)}, constants : {None}]
    \cup [model : ParseModels, features : {None}, targets : {None},
          constants : {IntArr2(<< <<1>>, <<2>> >>), IntArr2(<< <<1>>, <<2>>, <<-1>> >>)}]

ParseData == { IntArr2(<< <<2>> >>), IntArr2(<< <<1, 2>> >>), IntArr2(<< <<2, 1>> >>) }

ConstructParse == Construct(ParseArgs)
RunParse == RunCall(1, ParseData)
R2Parse == R2Call(1)

NextParse == ConstructParse \/ RunParse \/ R2Parse

SpecParse == Init /\ [][NextParse]_vars

(***************************************************************************)
(* Properties.                                                             *)
(***************************************************************************)
Given(x) == x # None
Constructed == made # NoCall /\ made.out.err = "none"
FitCall == made # NoCall /\ Given(made.args.features) /\ Given(made.args.targets)
                         /\ ~Given(made.args.constants)
PreloadCall == made # NoCall /\ ~Given(made.args.features) /\ ~Given(made.args.targets)
                             /\ Given(made.args.constants)

\* The number of distinct variables (lowercase letters) of a model string.
NumVariables(model) == Cardinality({c \in Range(model) : IsLetter(c)})

\* C1: a construction that is given both constants and features/targets, or
\* neither, or only one of features and targets, raises the AssertionError of the
\* argument checks (lines 176 and 183) and yields no object; a construction
\* succeeds only with exactly features and targets, or exactly constants.
C1_InvalidConstruction ==
    made # NoCall =>
       /\ ~(FitCall \/ PreloadCall) =>
             /\ made.out.err = "AssertionError"
             /\ made.out.msg \in {MsgBoth, MsgProvide}
             /\ self = None
       /\ made.out.err = "none" => FitCall \/ PreloadCall

\* Constants given together with features: rejected with the `not both` message.
C1_Witness ==
    /\ made # NoCall
    /\ Given(made.args.constants) /\ Given(made.args.features)
    /\ made.out.err = "AssertionError" /\ made.out.msg = MsgBoth
    /\ self = None

\* C2: r2 on an object constructed from constants always raises (AttributeError:
\* no features) and returns no value; r2 on a fitted object never raises that
\* error.
C2_R2Availability ==
    \A i \in DOMAIN calls :
       calls[i].op = "r2" =>
          /\ PreloadCall => calls[i].out.err = "AttributeError"
          /\ FitCall => calls[i].out.err # "AttributeError"

C2_Witness ==
    /\ PreloadCall
    /\ \E i \in DOMAIN calls : calls[i].op = "r2" /\ calls[i].out.err = "AttributeError"

\* C3: a fit whose features (a matrix, with a target matrix) have a number of
\* columns different from the number of distinct variables of the model raises
\* the feature-dimension AssertionError, whose message carries the actual and the
\* expected dimension, and yields no object (no coefficients).
C3_FitDimensionMismatch ==
    ( /\ FitCall
      /\ made.args.features.nd = 2 /\ made.args.targets.nd = 2
      /\ made.args.features.sh[2] # NumVariables(made.args.model) )
    => /\ made.out.err = "AssertionError"
       /\ made.out.msg = MsgFeatureDim
       /\ made.out.info = <<made.args.features.sh[2], NumVariables(made.args.model)>>
       /\ self = None

\* Two feature columns for the one variable of "x".
C3_Witness ==
    /\ FitCall
    /\ made.args.model = ModelX
    /\ made.args.features.nd = 2 /\ made.args.features.sh[2] = 2
    /\ made.args.targets.nd = 2
    /\ made.out.err = "AssertionError" /\ made.out.msg = MsgFeatureDim
    /\ made.out.info = <<2, 1>>

\* C4: run on data whose column count data.shape[1] differs from the number of
\* variables (data of one dimension, which has no shape[1], included) raises the
\* feature-dimension AssertionError, and never returns an output.
RunDataDiffers(data) ==
    data.nd < 2 \/ data.sh[2] # Len(made.out.val.variables)

C4_RunDimensionMismatch ==
    \A i \in DOMAIN calls :
       (calls[i].op = "run" /\ RunDataDiffers(calls[i].data))
       => /\ calls[i].out.err = "AssertionError"
          /\ calls[i].out.msg = MsgFeatureDim

\* C5: for a fitted object, the object preloaded with its model string and its
\* constants is constructed without error, and run on the fit's features returns
\* from it the same output as from the fitted object.
C5_RoundTrip ==
    \A i \in DOMAIN calls :
       (FitCall /\ calls[i].op = "run" /\ calls[i].data = self.features)
       => \E pre \in {PolyModel(self.model, None, None, self.constants, Zero)} :
             /\ pre.err = "none"
             /\ calls[i].out.err = "none"
             /\ run(pre.val, self.features) = calls[i].out

\* The docstring's fit of "x + y", run on its features.
C5_Witness ==
    /\ FitCall /\ Constructed
    /\ made.args.model = ModelXY /\ made.args.features = DocFeatures
    /\ \E i \in DOMAIN calls :
          calls[i].op = "run" /\ calls[i].data = DocFeatures /\ calls[i].out.err = "none"

\* C6: run calls with the same input on the same object have the same result,
\* whatever was called in between; the result is that of run on the stored
\* terms, variables and constants alone.
C6_RunIdempotent ==
    \A i \in DOMAIN calls :
       calls[i].op = "run" =>
          /\ \A j \in DOMAIN calls :
                (calls[j].op = "run" /\ calls[j].data = calls[i].data)
                => calls[j].out = calls[i].out
          /\ calls[i].out = run([_terms |-> self._terms, variables |-> self.variables,
                                 constants |-> self.constants], calls[i].data)

\* Two successful runs on one input with another call between them.
C6_Witness ==
    \E i, j \in DOMAIN calls :
       /\ i + 1 < j
       /\ calls[i].op = "run" /\ calls[j].op = "run"
       /\ calls[i].data = calls[j].data
       /\ calls[i].out.err = "none"
       /\ calls[i + 1].op = "r2"

\* C7: a constructed object is in exactly one of two states, Fitted (features,
\* targets and constants; run and r2 available) after a fit and Preloaded
\* (constants only; r2 unavailable) after a preload, and no run or r2 call
\* changes any attribute: the object stays the one the construction returned.
IsFitted(obj) ==
    /\ {"features", "targets", "constants"} \subseteq DOMAIN obj
    /\ r2(obj).err = "none"
IsPreloaded(obj) ==
    /\ "constants" \in DOMAIN obj
    /\ {"features", "targets"} \cap DOMAIN obj = {}
    /\ r2(obj).err = "AttributeError"

C7_TwoStates ==
    self # None =>
       /\ IsFitted(self) # IsPreloaded(self)
       /\ IsFitted(self) <=> FitCall
       /\ IsPreloaded(self) <=> PreloadCall
       /\ self = made.out.val

\* A fitted object after a run and an r2.
C7_Witness ==
    /\ self # None /\ FitCall
    /\ \E i, j \in DOMAIN calls : calls[i].op = "run" /\ calls[j].op = "r2"

\* C8: when X^T X of the design matrix X is invertible, the constants C of the
\* fit have one row per term (bias included) and one column per target, and
\* satisfy the normal equations (X^T X) C = X^T Y.
C8_NormalEquations ==
    (FitCall /\ Constructed /\ ~IsSingular(XtX(Rows(self._features_computed))))
    => /\ self.constants.sh = <<Len(Terms(self.model)), self.targets.sh[2]>>
       /\ MatMul(XtX(Rows(self._features_computed)), Rows(self.constants))
             = XtY(Rows(self._features_computed), Rows(self.targets))

\* The docstring's fit of "x + y" to two targets.
C8_Witness ==
    /\ FitCall /\ Constructed
    /\ made.args.model = ModelXY /\ made.args.features = DocFeatures
    /\ made.args.targets = DocTargets2
    /\ self.constants = Arr2(<< <<Q(5, 2), R(9)>>, <<Q(3, 4), Q(-1, 2)>>,
                                <<Q(-9, 4), Q(1, 2)>> >>)

\* C9: a fit whose design matrix X has a singular X^T X raises LinAlgError and
\* yields no object (no coefficients).
C9_SingularFails ==
    ( /\ FitCall
      /\ made.args.features.nd = 2 /\ made.args.targets.nd = 2
      /\ made.args.features.sh[2] = NumVariables(made.args.model) )
    => \E fc \in {FeaturesComputed(made.args.model, made.args.features)} :
          (fc.err = "none" /\ IsSingular(XtX(fc.val)))
          => (made.out.err = "LinAlgError" /\ self = None)

\* The value of a term on one row of the input: the term evaluated with each
\* variable bound to its entry of the row.
TermOnRow(term, variables, row) ==
    Eval(ReplaceCaret(term),
         [nm \in {<<variables[i]>> : i \in DOMAIN variables} |->
             [k |-> "np0",
              v |-> row[CHOOSE i \in DOMAIN variables : <<variables[i]>> = nm]]]).val.v

\* C10: a successful run on an N-row matrix returns the N x T matrix whose entry
\* [n, t] is the sum over the terms i (the bias, of value 1, first) of
\* constants[i, t] times the value of term i on row n.
C10_RunFormula ==
    \A c \in DOMAIN calls :
       (calls[c].op = "run" /\ calls[c].out.err = "none")
       => calls[c].out.val =
             Arr2([n \in 1..calls[c].data.sh[1] |->
                     [t \in 1..self.constants.sh[2] |->
                        RSum([i \in 1..Len(self._terms) |->
                                RMul(Rows(self.constants)[i][t],
                                     IF i = 1 THEN One
                                     ELSE TermOnRow(self._terms[i], self.variables,
                                                    Rows(calls[c].data)[n]))])]])

\* "x + x*y^2" with non-zero constants, run on a row with non-zero entries.
C10_Witness ==
    /\ Constructed /\ made.args.model = ModelProduct
    /\ \E c \in DOMAIN calls :
          /\ calls[c].op = "run" /\ calls[c].out.err = "none"
          /\ calls[c].data = IntArr2(<< <<1, 1>> >>)
          /\ \A i \in DOMAIN self.constants.v : ~IsZero(self.constants.v[i])

\* The column t of a matrix, as a vector.
Col(A, t) == [n \in 1..NRows(A) |-> A[n][t]]

\* Candidate coefficient vectors of m entries.
SmallCoefficients(m) == [1..m -> {R(-1), R(0), R(1), R(2)}]

\* C11: when a target column is an exact linear combination of the columns of the
\* design matrix X (bias included) and X has full column rank, the fit returns
\* exactly those coefficients, run(features) reproduces the column and its r2 is
\* 1; "x" on [[1],[2],[3]] -> [[2],[4],[6]] gives constants [[0],[2]], r2 [1],
\* and "x + y" on the docstring's features and targets gives
\* [[2.5],[0.75],[-2.25]], r2 [1].
C11_ExactRecovery ==
    \A i \in DOMAIN calls :
       (calls[i].op = "r2" /\ FitCall /\ ~IsSingular(XtX(Rows(self._features_computed))))
       => /\ \A t \in 1..self.targets.sh[2] :
                \A c \in SmallCoefficients(Len(self._terms)) :
                   ([n \in 1..self.features.sh[1] |->
                        Dot(c, Rows(self._features_computed)[n])] = Col(Rows(self.targets), t))
                   => /\ Col(Rows(self.constants), t) = c
                      /\ Col(Rows(run(self, self.features).val), t)
                            = Col(Rows(self.targets), t)
                      /\ calls[i].out.err = "none"
                      /\ calls[i].out.val.v[t] = One
          /\ ( /\ made.args.model = ModelX
               /\ made.args.features = IntArr2(<< <<1>>, <<2>>, <<3>> >>)
               /\ made.args.targets = IntArr2(<< <<2>>, <<4>>, <<6>> >>) )
             => /\ self.constants = IntArr2(<< <<0>>, <<2>> >>)
                /\ calls[i].out.val = IntArr1(<<1>>)
          /\ ( /\ made.args.model = ModelXY
               /\ made.args.features = DocFeatures
               /\ made.args.targets = DocTargets )
             => /\ self.constants = Arr2(<< <<Q(5, 2)>>, <<Q(3, 4)>>, <<Q(-9, 4)>> >>)
                /\ calls[i].out.val = IntArr1(<<1>>)

\* C12: for a fit with at least as many samples as terms and a design matrix of
\* full column rank, every entry of r2 is a number between 0 and 1 inclusive,
\* and is 1 when run(features) reproduces the target column.
C12_R2Range ==
    \A i \in DOMAIN calls :
       ( /\ calls[i].op = "r2" /\ FitCall
         /\ self.features.sh[1] >= Len(self._terms)
         /\ ~IsSingular(XtX(Rows(self._features_computed))) )
       => /\ calls[i].out.err = "none"
          /\ \A t \in 1..self.targets.sh[2] :
                /\ IsFinite(calls[i].out.val.v[t])
                /\ ~RLess(calls[i].out.val.v[t], Zero)
                /\ ~RLess(One, calls[i].out.val.v[t])
                /\ (Col(Rows(run(self, self.features).val), t) = Col(Rows(self.targets), t))
                   => calls[i].out.val.v[t] = One

\* The sum of the squares of the differences of two vectors, and the vector of
\* n copies of the mean of a vector.
SumSqDiff(u, w) == RSum([k \in DOMAIN u |-> RMul(RSub(u[k], w[k]), RSub(u[k], w[k]))])
MeanVector(u) == [k \in DOMAIN u |-> RDiv(RSum(u), R(Len(u)))]

\* C13: r2 of a fitted object is a 1-dimensional array of T entries; entry t is
\* 1 - (sum over the samples n of (run(features)[n,t] - targets[n,t])^2)
\*   / (sum over n of (targets[n,t] - mean of column t of targets)^2),
\* computed from column t alone.
C13_R2Formula ==
    \A i \in DOMAIN calls :
       (calls[i].op = "r2" /\ FitCall)
       => /\ calls[i].out.err = "none"
          /\ calls[i].out.val.nd = 1
          /\ calls[i].out.val.sh = <<self.targets.sh[2]>>
          /\ \A t \in 1..self.targets.sh[2] :
                calls[i].out.val.v[t] =
                   RSub(One,
                        RDiv(SumSqDiff(Col(Rows(run(self, self.features).val), t),
                                       Col(Rows(self.targets), t)),
                             SumSqDiff(Col(Rows(self.targets), t),
                                       MeanVector(Col(Rows(self.targets), t)))))

\* r2 of a fit to two target columns, one reproduced exactly and one not.
C13_Witness ==
    /\ FitCall /\ Constructed
    /\ self.targets.sh[2] = 2
    /\ \E i \in DOMAIN calls :
          /\ calls[i].op = "r2" /\ calls[i].out.err = "none"
          /\ calls[i].out.val.v[1] = One
          /\ IsFinite(calls[i].out.val.v[2]) /\ RLess(calls[i].out.val.v[2], One)

\* The positions of the '+' characters of a string, the p-th of them (0 and
\* Len + 1 standing for the ends of the string), and the text between the
\* (j-1)-th and the j-th.
PlusPositions(str) == {p \in DOMAIN str : str[p] = "+"}
PlusPosition(str, j) ==
    IF j = 0 THEN 0
    ELSE IF j > Cardinality(PlusPositions(str)) THEN Len(str) + 1
    ELSE CHOOSE p \in PlusPositions(str) :
            Cardinality({q \in PlusPositions(str) : q < p}) = j - 1
Segment(str, j) == SubSeq(str, PlusPosition(str, j - 1) + 1, PlusPosition(str, j) - 1)

\* t is str without its leading and trailing blanks.
IsStripOf(t, str) ==
    LET inked == {p \in DOMAIN str : str[p] # " "}
    IN  IF inked = {} THEN t = <<>>
        ELSE t = SubSeq(str, CHOOSE p \in inked : \A q \in inked : p <= q,
                             CHOOSE p \in inked : \A q \in inked : p >= q)

LetterIndex(c) == CHOOSE i \in DOMAIN Letters : Letters[i] = c

\* C14: the terms of a constructed object are "_bias" followed by the
\* '+'-separated substrings of the model string, in their order, each without its
\* surrounding blanks; its variables are the distinct lowercase letters of the
\* string, each once, in alphabetical order.
C14_TermParser ==
    Constructed =>
       /\ self._terms[1] = <<"_", "b", "i", "a", "s">>
       /\ Len(self._terms) = Cardinality(PlusPositions(self.model)) + 2
       /\ \A j \in 1..(Len(self._terms) - 1) :
             IsStripOf(self._terms[j + 1], Segment(self.model, j))
       /\ {self.variables[i] : i \in DOMAIN self.variables}
             = {c \in Range(self.model) : IsLetter(c)}
       /\ \A i, j \in DOMAIN self.variables :
             i < j => LetterIndex(self.variables[i]) < LetterIndex(self.variables[j])

\* "y + x": the terms in the order written, stripped; the variables sorted.
C14_Witness ==
    /\ Constructed
    /\ self.model = <<"y", " ", "+", " ", "x">>
    /\ self._terms = << <<"_", "b", "i", "a", "s">>, <<"y">>, <<"x">> >>
    /\ self.variables = <<"x", "y">>

\* The characters a model string may be written with, and the model strings that
\* are malformed: one with another character, or with a '+'-separated term that
\* is empty or blank (the empty string, a leading, doubled or trailing '+').
ExpressionChars == Range(Letters) \cup Range(Digits) \cup {"+", "*", "^", " ", "."}

IsMalformed(model) ==
    \/ \E p \in DOMAIN model : model[p] \notin ExpressionChars
    \/ \E j \in 1..(Cardinality(PlusPositions(model)) + 1) :
          IsStripOf(<<>>, Segment(model, j))

\* C15: the construction with a malformed model string raises, and yields no
\* object, when fitting and when preloading.
C15_MalformedExpression ==
    (made # NoCall /\ IsMalformed(made.args.model))
    => (made.out.err # "none" /\ self = None)

\* The characters of the restricted grammar (names, numeric literals, + - * / ^
\* and parentheses), the terms written with another character, the names a term
\* uses, and the terms that are expressions of the grammar over the variables.
GrammarChars ==
    Range(Letters) \cup Range(Digits) \cup {"+", "-", "*", "/", "^", "(", ")", " ", "."}

UsesOtherOperation(term) == \E p \in DOMAIN term : term[p] \notin GrammarChars

NamesOf(term) ==
    {Tokenize(term)[k].s : k \in {j \in DOMAIN Tokenize(term) : Tokenize(term)[j].t = "name"}}

IsGrammarTerm(term, variables) ==
    /\ ~UsesOtherOperation(term)
    /\ Compile(ReplaceCaret(term)).ok
    /\ NamesOf(term) \subseteq {<<variables[i]>> : i \in DOMAIN variables}

\* C16: in a run on a matrix with one column per variable, a term written with an
\* operation outside the grammar makes the run fail; a term of the grammar that
\* names something other than a variable makes it fail with NameError; and when
\* every term is an expression of the grammar over the variables the run returns
\* an output.
C16_RestrictedGrammar ==
    \A c \in DOMAIN calls :
       (calls[c].op = "run" /\ calls[c].data.nd = 2
                            /\ calls[c].data.sh[2] = Len(self.variables))
       => LET terms == Tail(self._terms)
              names == {<<self.variables[i]>> : i \in DOMAIN self.variables}
          IN  /\ (\E k \in DOMAIN terms : UsesOtherOperation(terms[k]))
                 => calls[c].out.err # "none"
              /\ ( /\ \A k \in DOMAIN terms : ~UsesOtherOperation(terms[k])
                   /\ \A k \in DOMAIN terms : Compile(ReplaceCaret(terms[k])).ok
                   /\ \E k \in DOMAIN terms : ~(NamesOf(terms[k]) \subseteq names) )
                 => calls[c].out.err = "NameError"
              /\ (\A k \in DOMAIN terms : IsGrammarTerm(terms[k], self.variables))
                 => calls[c].out.err = "none"

\* The binding of the letters of a model string to the entries of a row: the
\* letter with i - 1 letters of the string before it in the alphabet reads entry i.
SortedBinding(model, row) ==
    LET letters == {c \in Range(model) : IsLetter(c)}
    IN  [nm \in {<<c>> : c \in letters} |->
            [k |-> "np0",
             v |-> row[Cardinality({d \in letters : LetterIndex(d) < LetterIndex(nm[1])}) + 1]]]

\* C17: variables read the input columns in the alphabetical order of the
\* letters, not in their order in the model string: in the design matrix of a fit
\* and in the output of run, each term has its value under that binding.
C17_SortedBinding ==
    /\ (Constructed /\ FitCall)
       => \A n \in 1..self.features.sh[1] : \A i \in 2..Len(self._terms) :
             Rows(self._features_computed)[n][i]
                = Eval(ReplaceCaret(self._terms[i]),
                       SortedBinding(self.model, Rows(self.features)[n])).val.v
    /\ \A c \in DOMAIN calls :
          (calls[c].op = "run" /\ calls[c].out.err = "none")
          => \A n \in 1..calls[c].data.sh[1] : \A t \in 1..self.constants.sh[2] :
                Rows(calls[c].out.val)[n][t]
                   = RAdd(Rows(self.constants)[1][t],
                          RSum([i \in 1..(Len(self._terms) - 1) |->
                                  RMul(Rows(self.constants)[i + 1][t],
                                       Eval(ReplaceCaret(self._terms[i + 1]),
                                            SortedBinding(self.model,
                                                          Rows(calls[c].data)[n])).val.v)]))

\* "y + x" with constants [[1],[2],[-1]] on the row [1, 2]: x reads 1 and y reads
\* 2, so the output is 1 + 2*2 - 1*1.
C17_Witness ==
    /\ PreloadCall /\ Constructed
    /\ self.model = <<"y", " ", "+", " ", "x">>
    /\ self.constants = IntArr2(<< <<1>>, <<2>>, <<-1>> >>)
    /\ \E c \in DOMAIN calls :
          /\ calls[c].op = "run"
          /\ calls[c].data = IntArr2(<< <<1, 2>> >>)
          /\ calls[c].out.val = IntArr2(<< <<4>> >>)

\* The vector of m entries that is 1 at j and 0 elsewhere.
UnitVector(m, j) == [i \in 1..m |-> IF i = j THEN One ELSE Zero]

\* C18: the design matrix of a fit has one column per term, the first all ones
\* and column i the values of term i on the rows of the features, and the
\* constants have one row per term in the same order: a target column equal to
\* column j of a design matrix of full rank gets the coefficient 1 in row j and 0
\* elsewhere.  run adds row 1 of the constants, times 1, to the sum over the other
\* terms of their row times their value.
C18_BiasFirst ==
    /\ (Constructed /\ FitCall)
       => /\ self._features_computed.sh = <<self.features.sh[1], Len(self._terms)>>
          /\ self.constants.sh[1] = Len(self._terms)
          /\ \A n \in 1..self.features.sh[1] :
                /\ Rows(self._features_computed)[n][1] = One
                /\ \A i \in 2..Len(self._terms) :
                      Rows(self._features_computed)[n][i]
                         = TermOnRow(self._terms[i], self.variables, Rows(self.features)[n])
          /\ ~IsSingular(XtX(Rows(self._features_computed)))
             => \A t \in 1..self.targets.sh[2] : \A j \in 1..Len(self._terms) :
                   (Col(Rows(self.targets), t) = Col(Rows(self._features_computed), j))
                   => Col(Rows(self.constants), t) = UnitVector(Len(self._terms), j)
    /\ \A c \in DOMAIN calls :
          (calls[c].op = "run" /\ calls[c].out.err = "none")
          => \A n \in 1..calls[c].data.sh[1] : \A t \in 1..self.constants.sh[2] :
                Rows(calls[c].out.val)[n][t]
                   = RAdd(RMul(Rows(self.constants)[1][t], One),
                          RSum([i \in 1..(Len(self._terms) - 1) |->
                                  RMul(Rows(self.constants)[i + 1][t],
                                       TermOnRow(self._terms[i + 1], self.variables,
                                                 Rows(calls[c].data)[n]))]))

\* "x + x^2" fitted on [[0],[1],[2]] to targets equal to the bias column: the
\* design matrix [1, x, x^2] and the constants [[1],[0],[0]].
C18_Witness ==
    /\ Constructed /\ FitCall
    /\ self.model = <<"x", " ", "+", " ", "x", "^", "2">>
    /\ self.features = IntArr2(<< <<0>>, <<1>>, <<2>> >>)
    /\ self._features_computed = IntArr2(<< <<1, 0, 0>>, <<1, 1, 1>>, <<1, 2, 4>> >>)
    /\ self.targets = IntArr2(<< <<1>>, <<1>>, <<1>> >>)
    /\ self.constants = IntArr2(<< <<1>>, <<0>>, <<0>> >>)

\* The fit of the object's model and features to column t of its targets alone.
SingleTargetFit(obj, t, residue) ==
    PolyModel(obj.model, obj.features,
              Arr2([n \in 1..obj.targets.sh[1] |-> <<Rows(obj.targets)[n][t]>>]),
              None, residue)

\* C19: column t of the constants of a fit, and entry t of its r2, are those of
\* the fit of the same model and features to target column t alone (with the same
\* rounding in the inverse), whatever the other target columns hold.
C19_TargetsIndependent ==
    \A i \in DOMAIN calls :
       (calls[i].op = "r2" /\ FitCall)
       => \A t \in 1..self.targets.sh[2] :
             \E residue \in LUResidues :
                \E single \in {SingleTargetFit(self, t, residue)} :
                   /\ single.err = "none"
                   /\ Col(Rows(self.constants), t) = Col(Rows(single.val.constants), 1)
                   /\ calls[i].out.err = "none"
                   /\ calls[i].out.val.v[t] = r2(single.val).val.v[1]

\* The docstring's fit of "x + y" to two target columns, with different constants
\* for the two.
C19_Witness ==
    /\ Constructed /\ FitCall
    /\ self.model = <<"x", " ", "+", " ", "y">>
    /\ self.targets = DocTargets2
    /\ Col(Rows(self.constants), 1) # Col(Rows(self.constants), 2)
    /\ \E i \in DOMAIN calls : calls[i].op = "r2" /\ calls[i].out.err = "none"

TaxonomyErrors == {"AssertionError", "AttributeError", "LinAlgError", "SyntaxError", "NameError"}

\* A result is whole: a value and no exception, or an exception and no value.
IsWhole(out) == (out.err = "none" /\ out.val # None) \/ (out.err # "none" /\ out.val = None)

\* C21: every construction, run and r2 returns a complete result or raises one
\* of the errors of the taxonomy; a successful run returns a matrix of one row per
\* input row and one column per column of the constants, a successful r2 one
\* entry per target column; a failed construction yields no object, and no call,
\* failed or not, changes the object the construction returned.
C21_NoPartialFailure ==
    /\ made # NoCall
       => /\ IsWhole(made.out)
          /\ made.out.err \in TaxonomyErrors \cup {"none"}
          /\ made.out.err # "none" => self = None
          /\ made.out.err = "none" => self = made.out.val /\ "constants" \in DOMAIN self
    /\ \A c \in DOMAIN calls :
          /\ IsWhole(calls[c].out)
          /\ calls[c].out.err \in TaxonomyErrors \cup {"none"}
          /\ self = made.out.val
          /\ (calls[c].op = "run" /\ calls[c].out.err = "none")
             => /\ calls[c].out.val.nd = 2
                /\ calls[c].out.val.sh = <<calls[c].data.sh[1], self.constants.sh[2]>>
                /\ Len(calls[c].out.val.v) = calls[c].data.sh[1] * self.constants.sh[2]
          /\ (calls[c].op = "r2" /\ calls[c].out.err = "none")
             => /\ calls[c].out.val.nd = 1
                /\ Len(calls[c].out.val.v) = self.targets.sh[2]

(***************************************************************************)
(* run and r2 called from several threads.  A call is a sequence of steps, *)
(* one for each read of an attribute of the object, and the steps of       *)
(* different threads interleave freely.                                    *)
(*   self   the pair of objects the threads share                          *)
(*   made   their constructions: [op, args, out], args and out pairs       *)
(*   calls  one record per thread, in the order the threads started:       *)
(*          [op, obj, arg, data, pc, mapping, features, out], obj the      *)
(*          index of the object called, arg the argument of run, and       *)
(*          data, mapping, features and out the locals of the call         *)
(***************************************************************************)
MaxThreads == 2

ThreadFit == [model |-> ModelX, features |-> IntArr2(<< <<0>>, <<1>>, <<2>> >>),
              targets |-> IntArr2(<< <<1>>, <<2>>, <<4>> >>), constants |-> None]
ThreadPreload == [model |-> ModelSquare, features |-> None, targets |-> None,
                  constants |-> IntArr2(<< <<1>>, <<2>> >>)]
ThreadFit2 == [model |-> ModelXY, features |-> IntArr2(<< <<0, 1>>, <<1, 1>>, <<1, 0>> >>),
               targets |-> IntArr2(<< <<1>>, <<2>>, <<0>> >>), constants |-> None]

ThreadArgs == { <<ThreadFit, ThreadPreload>>, <<ThreadFit2, ThreadFit>> }

ThreadData == { IntArr2(<< <<2>>, <<3>> >>), IntArr2(<< <<1, 2>> >>) }

NoMapping == [nm \in {} |-> None]

InitThreads ==
    /\ \E a \in ThreadArgs :
          \E out \in {[k \in 1..2 |-> PolyModel(a[k].model, a[k].features, a[k].targets,
                                                a[k].constants, Zero)]} :
             /\ \A k \in 1..2 : out[k].err = "none"
             /\ made = [op |-> "init", args |-> a, out |-> out]
             /\ self = [k \in 1..2 |-> out[k].val]
    /\ calls = <<>>

\* A thread calls m.run(data) or m.r2 on one of the objects.
Start ==
    /\ Len(calls) < MaxThreads
    /\ \E k \in 1..2, c \in [op : {"run"}, arg : ThreadData] \cup [op : {"r2"}, arg : {None}] :
          calls' = Append(calls, [op |-> c.op, obj |-> k, arg |-> c.arg, data |-> c.arg,
                                  pc |-> IF c.op = "run" THEN "assert" ELSE "features",
                                  mapping |-> NoMapping, features |-> Good(<<>>),
                                  out |-> Good(None)])
    /\ UNCHANGED <<self, made>>

Finish(t, out) == [calls EXCEPT ![t].pc = "done", ![t].out = out]

\* r2, line 217: self.features is read and passed to run.
StepFeatures(t) ==
    /\ calls[t].pc = "features"
    /\ calls' = IF "features" \notin DOMAIN self[calls[t].obj]
                THEN Finish(t, Raise("AttributeError",
                                     "'PolyModel' object has no attribute 'features'", <<>>))
                ELSE [calls EXCEPT ![t].data = self[calls[t].obj].features,
                                   ![t].pc = "assert"]
    /\ UNCHANGED <<self, made>>

\* run, lines 234-236: the assert reads self.variables.
StepAssert(t) ==
    /\ calls[t].pc = "assert"
    /\ LET data == calls[t].data
           variables == self[calls[t].obj].variables
       IN  calls' = IF data.nd = 0
                    THEN Finish(t, Raise("TypeError", "len() of unsized object", <<>>))
                    ELSE IF LenT(data) # Len(variables)
                    THEN IF data.nd = 1
                         THEN Finish(t, Raise("IndexError", "tuple index out of range", <<>>))
                         ELSE Finish(t, Raise("AssertionError", MsgFeatureDim,
                                              <<Shape(data)[2], Len(variables)>>))
                    ELSE [calls EXCEPT ![t].pc = "mapping"]
    /\ UNCHANGED <<self, made>>

\* run, lines 238-240: the local mapping is filled from self.variables.
StepMapping(t) ==
    /\ calls[t].pc = "mapping"
    /\ calls' = [calls EXCEPT ![t].mapping = Mapping(self[calls[t].obj].variables,
                                                     calls[t].data),
                              ![t].pc = "terms"]
    /\ UNCHANGED <<self, made>>

\* run, lines 242-244: self._terms[1:] is read and each term evaluated in the
\* local mapping.
StepTerms(t) ==
    /\ calls[t].pc = "terms"
    /\ LET terms == self[calls[t].obj]._terms
       IN  \E vals \in {EvalAll([i \in 1..(Len(terms) - 1) |-> ReplaceCaret(terms[i + 1])],
                                calls[t].mapping)} :
              calls' = IF vals.err # "none" THEN Finish(t, vals)
                       ELSE IF \E i \in DOMAIN vals.val : vals.val[i].k # "a"
                       THEN Finish(t, Raise("AxisError",
                                 "axis 1 is out of bounds for array of dimension 1", <<>>))
                       ELSE [calls EXCEPT ![t].features = vals, ![t].pc = "constants"]
    /\ UNCHANGED <<self, made>>

\* run, lines 246-249: self.constants is read and each of its columns applied
\* to the stacked features; the call returns, or r2 goes on to its formula.
StepConstants(t) ==
    /\ calls[t].pc = "constants"
    /\ LET n == Shape(calls[t].data)[1]
           consts == Columns(self[calls[t].obj].constants)
       IN  \E fc \in {HStack(<<[k |-> "a", v |-> Ones(n)]>> \o calls[t].features.val, n)} :
              calls' =
                 IF calls[t].data.nd = 3
                 THEN Finish(t, Raise("ValueError",
                           "all the input arrays must have same number of dimensions", <<>>))
                 ELSE IF \E c \in DOMAIN consts : Len(consts[c]) # NCols(fc)
                 THEN Finish(t, Raise("ValueError",
                                      "operands could not be broadcast together", <<>>))
                 ELSE [calls EXCEPT
                         ![t].out = Good(Arr2([r \in 1..n |-> [c \in DOMAIN consts |->
                                                  Dot(consts[c], fc[r])]])),
                         ![t].pc = IF calls[t].op = "run" THEN "done" ELSE "targets"]
    /\ UNCHANGED <<self, made>>

\* A variant of the last step of r2 that centres the stored targets in place
\* (self.targets -= self.targets.mean(0)) before it uses them.
StepTargetsInPlace(t) ==
    /\ calls[t].pc = "targets"
    /\ LET y == Rows(self[calls[t].obj].targets)
           mean == [c \in 1..NCols(y) |-> RDiv(RSum([r \in 1..NRows(y) |-> y[r][c]]),
                                                R(NRows(y)))]
           centred == [r \in 1..NRows(y) |-> [c \in 1..NCols(y) |-> RSub(y[r][c], mean[c])]]
       IN  /\ calls' = Finish(t, Good(Arr1(RSquared(Rows(calls[t].out.val), centred))))
           /\ self' = [self EXCEPT ![calls[t].obj].targets = Arr2(centred)]
    /\ UNCHANGED made

\* r2, line 217: self.targets is read and the formula evaluated on the result
\* of run.
StepTargets(t) ==
    /\ calls[t].pc = "targets"
    /\ calls' = Finish(t, Good(Arr1(RSquared(Rows(calls[t].out.val),
                                             Rows(self[calls[t].obj].targets)))))
    /\ UNCHANGED <<self, made>>

NextThreads ==
    \/ Start
    \/ \E t \in DOMAIN calls : StepFeatures(t)
    \/ \E t \in DOMAIN calls : StepAssert(t)
    \/ \E t \in DOMAIN calls : StepMapping(t)
    \/ \E t \in DOMAIN calls : StepTerms(t)
    \/ \E t \in DOMAIN calls : StepConstants(t)
    \/ \E t \in DOMAIN calls : StepTargets(t)

SpecThreads == InitThreads /\ [][NextThreads]_vars

\* The result of the call of thread t when it is executed alone on the object
\* as it was constructed.
Alone(t) ==
    IF calls[t].op = "run" THEN run(made.out[calls[t].obj].val, calls[t].arg)
    ELSE r2(made.out[calls[t].obj].val)

\* C22: under every interleaving of the steps of run and r2 calls of several
\* threads, on the same object or on different ones, the objects stay as they
\* were constructed and every call that has returned has returned what the same
\* call returns when it is executed alone.
C22_ThreadsIndependent ==
    /\ self = [k \in 1..2 |-> made.out[k].val]
    /\ \A t \in DOMAIN calls : calls[t].pc = "done" => calls[t].out = Alone(t)

\* A run has returned a prediction although it started after, and finished
\* before, an r2 of another thread on the same object that is still between its
\* reads.
C22_Witness ==
    /\ Len(calls) = 2
    /\ calls[1].obj = calls[2].obj
    /\ calls[1].op = "r2" /\ calls[1].pc = "constants"
    /\ calls[2].op = "run" /\ calls[2].pc = "done" /\ calls[2].out.err = "none"

(***************************************************************************)
(* misc_utils.FieldDict.                                                   *)
(* A Python value is a record [k, n, s, items, attrs]: k its type, n the   *)
(* number of an int, s the characters of a str, items the entries of a     *)
(* container in order ([key, val]; key is empty in a list, tuple or set),  *)
(* attrs the instance attributes of a FieldDict.  Keys are strings.        *)
(***************************************************************************)
Item(key, val) == [key |-> key, val |-> val]
PyValue(k, n, str, items, attrs) == [k |-> k, n |-> n, s |-> str, items |-> items, attrs |-> attrs]
PyNone == PyValue("NoneType", 0, <<>>, <<>>, <<>>)
PyInt(n) == PyValue("int", n, <<>>, <<>>, <<>>)
PyStr(str) == PyValue("str", 0, str, <<>>, <<>>)
PyList(vals) == PyValue("list", 0, <<>>, [i \in DOMAIN vals |-> Item(<<>>, vals[i])], <<>>)
PyTuple(vals) == PyValue("tuple", 0, <<>>, [i \in DOMAIN vals |-> Item(<<>>, vals[i])], <<>>)
PyDict(items) == PyValue("dict", 0, <<>>, items, <<>>)

\* key in d, d[key] and dict.__setitem__(d, key, val) on the entries of a dict.
HasKey(items, key) == \E i \in DOMAIN items : items[i].key = key
GetItem(items, key) == items[CHOOSE i \in DOMAIN items : items[i].key = key].val
DictSetItem(items, key, val) ==
    IF HasKey(items, key)
    THEN [i \in DOMAIN items |-> IF items[i].key = key THEN Item(key, val) ELSE items[i]]
    ELSE Append(items, Item(key, val))

\* FieldDict._defaults
KeyName == <<"_", "n", "a", "m", "e">>
KeyDispLimit == <<"_", "k", "e", "y", "_", "d", "i", "s", "p", "_", "l", "i", "m", "i", "t">>
DefaultName == PyStr(<<"F", "i", "e", "l", "d", "D", "i", "c", "t">>)
DefaultKeyDispLimit == PyInt(4)

IsDictType(v) == v.k \in {"dict", "FieldDict"}

\* FieldDict._convert(value), and in its first branch FieldDict(**value): the
\* defaults are popped into attributes and every other entry is stored with
\* self[key] = self._convert(value), which converts once more in __setitem__.
RECURSIVE Convert(_)
Convert(value) ==
    IF value.k = "dict"
    THEN PyValue("FieldDict", 0, <<>>,
                 LET rest == SelectSeq(value.items,
                                       LAMBDA it : it.key \notin {KeyName, KeyDispLimit})
                 IN  [i \in DOMAIN rest |->
                        Item(rest[i].key, Convert(Convert(rest[i].val)))],
                 << Item(KeyName, IF HasKey(value.items, KeyName)
                                  THEN GetItem(value.items, KeyName) ELSE DefaultName),
                    Item(KeyDispLimit, IF HasKey(value.items, KeyDispLimit)
                                       THEN GetItem(value.items, KeyDispLimit)
                                       ELSE DefaultKeyDispLimit) >>)
    ELSE IF value.k \in {"list", "set", "tuple"}
    THEN [value EXCEPT !.items = [i \in DOMAIN @ |-> Item(@[i].key, Convert(@[i].val))]]
    ELSE value

\* FieldDict(**kwargs)
FieldDict(kwargs) == Convert(PyDict(kwargs))

\* str.split('.')
RECURSIVE SplitDots(_)
SplitDots(str) ==
    IF "." \notin Range(str) THEN <<str>>
    ELSE LET i == CHOOSE k \in DOMAIN str : str[k] = "." /\ \A j \in 1..(k - 1) : str[j] # "."
         IN  <<SubSeq(str, 1, i - 1)>> \o SplitDots(SubSeq(str, i + 1, Len(str)))

\* a in b for two strings
IsSubstring(a, b) == \E i \in 0..(Len(b) - Len(a)) : SubSeq(b, i + 1, i + Len(a)) = a

\* The loop of get_with_path from `current` over the remaining keys:
\* `key in current` and current[key] as Python evaluates them for each type.
RECURSIVE Descend(_, _, _)
Descend(current, keys, default) ==
    IF keys = <<>> THEN Good(current)
    ELSE IF IsDictType(current)
    THEN IF HasKey(current.items, Head(keys))
         THEN Descend(GetItem(current.items, Head(keys)), Tail(keys), default)
         ELSE Good(default)
    ELSE IF current.k \in {"list", "tuple"}
    THEN IF \E i \in DOMAIN current.items : current.items[i].val = PyStr(Head(keys))
         THEN Raise("TypeError", "indices must be integers or slices, not str", <<>>)
         ELSE Good(default)
    ELSE IF current.k = "set"
    THEN IF \E i \in DOMAIN current.items : current.items[i].val = PyStr(Head(keys))
         THEN Raise("TypeError", "'set' object is not subscriptable", <<>>)
         ELSE Good(default)
    ELSE IF current.k = "str"
    THEN IF IsSubstring(Head(keys), current.s)
         THEN Raise("TypeError", "string indices must be integers", <<>>)
         ELSE Good(default)
    ELSE Raise("TypeError", "argument of type is not iterable", <<>>)

\* FieldDict.get_with_path(path, default)
get_with_path(fd, path, default) == Descend(fd, SplitDots(path), default)

(***************************************************************************)
(* The life of one FieldDict.                                              *)
(*   self   the FieldDict; None before the construction                    *)
(*   made   the construction call [op, args, out]                          *)
(*   calls  the calls on it so far, each [op, key, value, out]             *)
(***************************************************************************)
MaxFieldOps == 2

KeyA == <<"a">>
KeyB == <<"b">>
Leaf == PyDict(<<Item(KeyB, PyInt(2))>>)
Nested == PyDict(<<Item(KeyB, PyDict(<<Item(KeyA, PyInt(3))>>))>>)

FieldValues == { PyInt(1), PyStr(<<"a", "b">>), Leaf, Nested, PyList(<<PyInt(1), Leaf>>),
                 PyTuple(<<PyStr(KeyB)>>) }

FieldKwargs ==
    {<<>>} \cup {<<Item(KeyA, v)>> : v \in FieldValues}
           \cup {<<Item(KeyName, PyStr(<<"n">>)), Item(KeyB, Nested)>>}

FieldPaths == { KeyA, <<"a", ".", "b">>, <<"a", ".", "b", ".", "a">>, <<"b", ".", "b">>,
                <<"a", ".">> }

IsFieldDict == made # NoCall

FieldCall(op, key, value, out) == [op |-> op, key |-> key, value |-> value, out |-> out]

\* fd = FieldDict(**kwargs)
NewFieldDict ==
    /\ made = NoCall
    /\ \E kwargs \in FieldKwargs :
          /\ made' = [op |-> "init", args |-> kwargs, out |-> Good(FieldDict(kwargs))]
          /\ self' = FieldDict(kwargs)
    /\ UNCHANGED calls

\* fd[key] = value
SetItem ==
    /\ IsFieldDict /\ Len(calls) < MaxFieldOps
    /\ \E value \in FieldValues :
          /\ self' = [self EXCEPT !.items = DictSetItem(@, KeyA, Convert(value))]
          /\ calls' = Append(calls, FieldCall("__setitem__", KeyA, value, Good(PyNone)))
    /\ UNCHANGED made

\* fd.name = value
SetAttr ==
    /\ IsFieldDict /\ Len(calls) < MaxFieldOps
    /\ \E c \in {<<KeyB, Leaf>>, <<KeyB, PyInt(1)>>, <<KeyName, PyStr(<<"n">>)>>} :
          /\ self' = IF c[1][1] = "_"
                     THEN [self EXCEPT !.attrs = DictSetItem(@, c[1], c[2])]
                     ELSE [self EXCEPT !.items = DictSetItem(@, c[1], Convert(Convert(c[2])))]
          /\ calls' = Append(calls, FieldCall("__setattr__", c[1], c[2], Good(PyNone)))
    /\ UNCHANGED made

\* The entries of dict d after dict.update(d, other): FieldDict does not
\* override update, and dict.update stores without calling __setitem__.
RECURSIVE DictUpdate(_, _)
DictUpdate(items, other) ==
    IF other = <<>> THEN items
    ELSE DictUpdate(DictSetItem(items, Head(other).key, Head(other).val), Tail(other))

\* fd.update(other)
Update ==
    /\ IsFieldDict /\ Len(calls) < MaxFieldOps
    /\ \E other \in {Leaf, PyDict(<<Item(KeyA, PyInt(1))>>), Nested} :
          /\ self' = [self EXCEPT !.items = DictUpdate(@, other.items)]
          /\ calls' = Append(calls, FieldCall("update", <<>>, other, Good(PyNone)))
    /\ UNCHANGED made

\* fd.setdefault(key, default): inherited from dict as well.
SetDefault ==
    /\ IsFieldDict /\ Len(calls) < MaxFieldOps
    /\ \E c \in {<<KeyB, Leaf>>, <<KeyA, PyInt(1)>>} :
          /\ self' = IF HasKey(self.items, c[1]) THEN self
                     ELSE [self EXCEPT !.items = DictSetItem(@, c[1], c[2])]
          /\ calls' = Append(calls, FieldCall("setdefault", c[1], c[2],
                                 Good(IF HasKey(self.items, c[1])
                                      THEN GetItem(self.items, c[1]) ELSE c[2])))
    /\ UNCHANGED made

\* fd.get_with_path(path, default)
GetWithPath ==
    /\ IsFieldDict /\ Len(calls) < MaxFieldOps
    /\ \E path \in FieldPaths, default \in {PyNone, PyInt(0)} :
          calls' = Append(calls, FieldCall("get_with_path", path, default,
                                           get_with_path(self, path, default)))
    /\ UNCHANGED <<self, made>>

NextFieldDict == NewFieldDict \/ SetItem \/ SetAttr \/ Update \/ SetDefault \/ GetWithPath

SpecFieldDict == Init /\ [][NextFieldDict]_vars

\* No plain dict is stored in v or nested in its lists, tuples, sets and dicts.
RECURSIVE NoPlainDict(_)
NoPlainDict(v) ==
    /\ v.k # "dict"
    /\ \A i \in DOMAIN v.items : NoPlainDict(v.items[i].val)

\* C23: after the construction and after any sequence of item assignments,
\* attribute assignments, update and setdefault, every dict stored in the
\* FieldDict, directly or nested in a stored list, tuple, set or dict, is a
\* FieldDict.
C23_EveryDictIsFieldDict ==
    IsFieldDict => \A i \in DOMAIN self.items : NoPlainDict(self.items[i].val)

\* Every key of the path exists: each key but the first is looked up in the
\* dict found under the keys before it.
RECURSIVE PathExists(_, _)
PathExists(current, keys) ==
    \/ keys = <<>>
    \/ /\ IsDictType(current)
       /\ HasKey(current.items, Head(keys))
       /\ PathExists(GetItem(current.items, Head(keys)), Tail(keys))

RECURSIVE ValueAt(_, _)
ValueAt(current, keys) ==
    IF keys = <<>> THEN current ELSE ValueAt(GetItem(current.items, Head(keys)), Tail(keys))

\* C24: get_with_path(path, default) returns the value at the dot-separated
\* path when every key of the path exists, and returns the default, without
\* raising, for every other path, also one that continues below a number, a
\* string or a list.  (Stated of the call just made, on the FieldDict as it was
\* called.)
C24_GetWithPath ==
    (calls # <<>> /\ calls[Len(calls)].op = "get_with_path")
    => LET call == calls[Len(calls)]
       IN  /\ call.out.err = "none"
           /\ call.out.val = IF PathExists(self, SplitDots(call.key))
                             THEN ValueAt(self, SplitDots(call.key))
                             ELSE call.value

(***************************************************************************)
(* version_utils.check_latest_version_from_github.                         *)
(* Strings are sequences of characters; an argument that may be None is a  *)
(* record [has, s].                                                        *)
(***************************************************************************)
Some(str) == [has |-> TRUE, s |-> str]
Missing == [has |-> FALSE, s |-> <<>>]

IsAlnumHyphen(c) == IsDigit(c) \/ c = "-" \/ c \in {"a", "b", "c", "r", "v", "x"}

\* str.split(sep) for a one-character sep
RECURSIVE SplitOn(_, _)
SplitOn(str, sep) ==
    IF sep \notin Range(str) THEN <<str>>
    ELSE LET i == CHOOSE k \in DOMAIN str : str[k] = sep /\ \A j \in 1..(k - 1) : str[j] # sep
         IN  <<SubSeq(str, 1, i - 1)>> \o SplitOn(SubSeq(str, i + 1, Len(str)), sep)

\* str.strip(' "' " '"): spaces and both quotes are removed from both ends.
RECURSIVE StripQuotes(_)
StripQuotes(str) ==
    IF str = <<>> THEN str
    ELSE IF Head(str) \in {" ", "\"", "'"} THEN StripQuotes(Tail(str))
    ELSE IF str[Len(str)] \in {" ", "\"", "'"} THEN StripQuotes(SubSeq(str, 1, Len(str) - 1))
    ELSE str

\* The pieces of the semver pattern: 0|[1-9]\d* ; a prerelease identifier
\* 0|[1-9]\d*|\d*[a-zA-Z-][0-9a-zA-Z-]* ; a build identifier [0-9a-zA-Z-]+ .
IsNumericId(str) ==
    /\ str # <<>>
    /\ \A i \in DOMAIN str : IsDigit(str[i])
    /\ Len(str) > 1 => str[1] # "0"

IsBuildId(str) == str # <<>> /\ \A i \in DOMAIN str : IsAlnumHyphen(str[i])

IsPrereleaseId(str) ==
    \/ IsNumericId(str)
    \/ IsBuildId(str) /\ \E i \in DOMAIN str : ~IsDigit(str[i])

\* re.search(semver, text) succeeds: the whole text is core[-prerelease][+build].
IsSemver(text) ==
    LET plus == SplitOn(text, "+")
        hyphen == CHOOSE k \in 1..(Len(plus[1]) + 1) :
                     /\ k <= Len(plus[1]) => plus[1][k] = "-"
                     /\ \A j \in 1..(k - 1) : plus[1][j] # "-"
        core == SplitOn(SubSeq(plus[1], 1, hyphen - 1), ".")
        pre == SplitOn(SubSeq(plus[1], hyphen + 1, Len(plus[1])), ".")
    IN  /\ Len(plus) <= 2
        /\ Len(core) = 3 /\ \A i \in 1..3 : IsNumericId(core[i])
        /\ hyphen <= Len(plus[1]) => \A i \in DOMAIN pre : IsPrereleaseId(pre[i])
        /\ Len(plus) = 2 => \A i \in DOMAIN SplitOn(plus[2], ".") :
                               IsBuildId(SplitOn(plus[2], ".")[i])

DunderVersion == <<"_", "_", "v", "e", "r", "s", "i", "o", "n", "_", "_">>

\* re.search('__version__.*', text): the match from the first '__version__' to
\* the end of its line, or the text itself when there is none.
VersionSearch(text) ==
    LET n == Len(DunderVersion)
        starts == {i \in 1..(Len(text) - n + 1) : SubSeq(text, i, i + n - 1) = DunderVersion}
    IN  IF starts = {} THEN text
        ELSE LET a == CHOOSE i \in starts : \A j \in starts : i <= j
                 b == CHOOSE k \in a..(Len(text) + 1) :
                         /\ k <= Len(text) => text[k] = "\n"
                         /\ \A j \in a..(k - 1) : text[j] # "\n"
             IN  SubSeq(text, a, b - 1)

\* parse_version(text)
parse_version(text) ==
    LET parts == SplitOn(VersionSearch(text), "=")
        stripped == IF Len(parts) > 1 THEN StripQuotes(parts[2])
                    ELSE StripQuotes(VersionSearch(text))
    IN  IF IsSemver(stripped) THEN stripped ELSE <<>>

\* The outcome of a call: what it returns or raises, and what it logs.
Outcome(out, log) == [out |-> out, log |-> log]
LogRecord(level, msg) == [level |-> level, msg |-> msg]

\* The except clause of lines 75-78.
Failed(warn, exc) ==
    Outcome(Good(<<>>),
            IF warn THEN << LogRecord("WARNING", "Failed to check latest version from Github."),
                            LogRecord("traceback", exc) >>
            ELSE <<>>)

\* json.loads(f.text)[0][key][1:] of lines 65 and 72; the parsed body is
\* [kind, name, tag_name] with kind "invalid" (not JSON), "dict" (an object, as
\* the error bodies of the API), "empty" (the list []) or "list" (a list whose
\* first entry has the fields that are not Missing).
FirstEntry(json, key) ==
    IF json.kind = "invalid" THEN Raise("JSONDecodeError", "", <<>>)
    ELSE IF json.kind = "dict" THEN Raise("KeyError", "0", <<>>)
    ELSE IF json.kind = "empty" THEN Raise("IndexError", "list index out of range", <<>>)
    ELSE IF ~json[key].has THEN Raise("KeyError", key, <<>>)
    ELSE Good(Tail(json[key].s))

\* Lines 61-73 for the sources "tag" and "release".
FromApi(resp, key, warn) ==
    IF resp.exc THEN Failed(warn, "ConnectionError")
    ELSE IF ~resp.ok
    THEN Outcome(Good(<<>>), <<LogRecord("ERROR", "Could not check Github version because")>>)
    ELSE IF FirstEntry(resp.json, key).err # "none"
    THEN Failed(warn, FirstEntry(resp.json, key).err)
    ELSE Outcome(Good(parse_version(FirstEntry(resp.json, key).val)), <<>>)

\* A variant whose unrecognized source raises outside the try block.
check_latest_version_unguarded(source, branch, path_to_version_file, warn, resp) ==
    IF source = "commit"
    THEN IF ~branch.has \/ ~path_to_version_file.has THEN Failed(warn, "AssertionError")
         ELSE IF resp.exc THEN Failed(warn, "ConnectionError")
         ELSE Outcome(Good(parse_version(resp.text)), <<>>)
    ELSE IF source = "tag" THEN FromApi(resp, "name", warn)
    ELSE IF source = "release" THEN FromApi(resp, "tag_name", warn)
    ELSE Outcome(Raise("ValueError", "source not recognized", <<>>), <<>>)

\* check_latest_version_from_github(owner, repo, source, branch,
\* path_to_version_file, warn), given what requests.get does: raise (resp.exc) or
\* return the response [ok, text, json].
check_latest_version_from_github(source, branch, path_to_version_file, warn, resp) ==
    IF source = "commit"
    THEN IF ~branch.has \/ ~path_to_version_file.has THEN Failed(warn, "AssertionError")
         ELSE IF resp.exc THEN Failed(warn, "ConnectionError")
         ELSE Outcome(Good(parse_version(resp.text)), <<>>)
    ELSE IF source = "tag" THEN FromApi(resp, "name", warn)
    ELSE IF source = "release" THEN FromApi(resp, "tag_name", warn)
    ELSE Failed(warn, "ValueError")

MaxChecks == 1

VersionArgs ==
    [source : {"commit"}, branch : {Missing, Some(<<"m", "a", "i", "n">>)},
     path_to_version_file : {Missing, Some(<<"v", ".", "p", "y">>)}, warn : BOOLEAN]
    \cup [source : {"tag", "release", "branch"}, branch : {Some(<<"m", "a", "i", "n">>)},
          path_to_version_file : {Missing}, warn : BOOLEAN]

NoJson == [kind |-> "invalid", name |-> Missing, tag_name |-> Missing]
Json(kind, name, tag_name) == [kind |-> kind, name |-> name, tag_name |-> tag_name]
Response(ok, text, json) == [exc |-> FALSE, ok |-> ok, text |-> text, json |-> json]

\* What requests.get can do: raise; answer 404 with the error body of the raw
\* host or of the API; answer 200 with a version file, or with a list of tags or
\* releases.
Responses ==
    { [exc |-> TRUE, ok |-> FALSE, text |-> <<>>, json |-> NoJson],
      Response(FALSE, <<"4", "0", "4", ":", " ", "N", "o", "t", " ", "F", "o", "u", "n", "d">>, NoJson),
      Response(FALSE, <<"{", "}">>, Json("dict", Missing, Missing)) }
    \cup { Response(TRUE, text, NoJson) :
              text \in { <<"_", "_", "v", "e", "r", "s", "i", "o", "n", "_", "_", " ", "=", " ", "\"", "1", ".", "2", ".", "3", "\"", "\n">>,
                         <<"a", " ", "=", " ", "1", "\n", "_", "_", "v", "e", "r", "s", "i", "o", "n", "_", "_", " ", "=", " ", "'", "0", ".", "1", ".", "0", "-", "r", "c", "1", "'", "\n", "b", " ", "=", " ", "2", "\n">>,
                         <<"_", "_", "v", "e", "r", "s", "i", "o", "n", "_", "_", " ", "=", " ", "\"", "1", ".", "2", "\"", "\n">>,
                         <<"2", ".", "0", ".", "1", "0", "+", "b">>,
                         <<"0", "1", ".", "2", ".", "3">> } }
    \cup { Response(TRUE, <<"[", "]">>, json) :
              json \in { Json("empty", Missing, Missing), Json("dict", Missing, Missing),
                         Json("list", Missing, Missing),
                         Json("list", Some(<<"v", "1", ".", "2", ".", "3">>), Some(<<"v", "1", ".", "2", ".", "3">>)),
                         Json("list", Some(<<"r", "1">>), Some(<<"v", "0", ".", "3", ".", "0", "-", "r", "c", "1">>)),
                         Json("list", Some(<<"1", ".", "2", ".", "3">>), Some(<<"v", "1", ".", "0", "2", ".", "3">>)),
                         Json("list", Some(<<"v", "0", ".", "3", ".", "0">>), Missing) } }

\* latest = check_latest_version_from_github(...)
CheckLatest ==
    /\ Len(calls) < MaxChecks
    /\ \E a \in VersionArgs, resp \in Responses :
          \E o \in {check_latest_version_from_github(a.source, a.branch,
                                                     a.path_to_version_file, a.warn, resp)} :
             calls' = Append(calls, [op |-> "check_latest_version_from_github", args |-> a,
                                     resp |-> resp, out |-> o.out, log |-> o.log])
    /\ UNCHANGED <<self, made>>

NextVersion == CheckLatest

SpecVersion == Init /\ [][NextVersion]_vars

\* The tag of the newest entry of the list the API returned for the source, with
\* its first character (the "v") dropped; Missing when there is none.
NewestTag(c) ==
    LET key == IF c.args.source = "tag" THEN "name" ELSE "tag_name"
    IN  IF ~c.resp.exc /\ c.resp.ok /\ c.resp.json.kind = "list" /\ c.resp.json[key].has
        THEN Some(Tail(c.resp.json[key].s))
        ELSE Missing

\* The call has what it needs and the request was answered with a version.
Succeeds(c) ==
    \/ /\ c.args.source = "commit"
       /\ c.args.branch.has /\ c.args.path_to_version_file.has
       /\ ~c.resp.exc
       /\ parse_version(c.resp.text) # <<>>
    \/ /\ c.args.source \in {"tag", "release"}
       /\ NewestTag(c).has
       /\ IsSemver(NewestTag(c).s)

\* C25: check_latest_version_from_github never raises; on success it returns
\* the latest version, a semantic version found in the response, and for an
\* unrecognized source, a missing branch or path, a request that raises or is
\* answered with an error, and a body that does not parse it returns the empty
\* string; with warn=False no warning is logged and no traceback printed (the
\* logging.error of lines 63 and 70, for a tag or release request answered with
\* an error status, is an ERROR record and is logged whatever warn is).
C25_NeverRaises ==
    \A i \in DOMAIN calls :
       LET c == calls[i]
       IN  /\ c.out.err = "none"
           /\ IF Succeeds(c)
              THEN /\ IsSemver(c.out.val)
                   /\ c.args.source = "commit" => IsSubstring(c.out.val, c.resp.text)
                   /\ c.args.source # "commit" => c.out.val = NewestTag(c).s
                   /\ c.log = <<>>
              ELSE c.out.val = <<>>
           /\ ~c.args.warn
              => \A k \in DOMAIN c.log : c.log[k].level \notin {"WARNING", "traceback"}

\* A release check with warn=False was answered with a list whose newest tag,
\* v1.02.3, is no semantic version, and returned the empty string.
C25_Witness ==
    /\ calls # <<>>
    /\ ~calls[1].args.warn
    /\ calls[1].args.source = "release"
    /\ NewestTag(calls[1]).has /\ ~IsSemver(NewestTag(calls[1]).s)
    /\ calls[1].out = Good(<<>>)

\* A product of powers: factors joined by '*', each a variable or a variable,
\* '^' and a decimal exponent ("x", "x^2", "x*y^2").
IsPowerFactor(f) ==
    /\ f # <<>> /\ IsLetter(f[1])
    /\ Len(f) > 1 => /\ Len(f) >= 3 /\ f[2] = "^"
                     /\ \A i \in 3..Len(f) : IsDigit(f[i])

IsPowerProduct(term) == \A i \in DOMAIN SplitOn(term, "*") : IsPowerFactor(SplitOn(term, "*")[i])

HasCaret(model) == "^" \in Range(model)

\* The variable of the factor on the row, raised to the exponent of the factor.
FactorOnRow(f, variables, row) ==
    RPowNat(row[CHOOSE i \in DOMAIN variables : variables[i] = f[1]],
            IF Len(f) = 1 THEN 1 ELSE DecimalValue(SubSeq(f, 3, Len(f))))

RECURSIVE ProductOnRow(_, _, _)
ProductOnRow(fs, variables, row) ==
    IF fs = <<>> THEN One
    ELSE RMul(FactorOnRow(Head(fs), variables, row), ProductOnRow(Tail(fs), variables, row))

PowerProductOnRow(term, variables, row) == ProductOnRow(SplitOn(term, "*"), variables, row)

\* C26: '^' is exponentiation in both evaluators.  For a model with a '^' whose
\* terms are products of powers with exponents n >= 0, the construction raises no
\* SyntaxError, NameError or TypeError; the column of the fit-time design matrix
\* of each term holds, row by row, the product of its variables raised to their
\* exponents; and a run on a matrix with one column per variable succeeds and
\* returns the constants applied to the same products.
C26_CaretIsPower ==
    (made # NoCall /\ HasCaret(made.args.model)
       /\ \A i \in DOMAIN Split(made.args.model) :
             IsPowerProduct(Strip(Split(made.args.model)[i])))
    => /\ made.out.err \notin {"SyntaxError", "NameError", "TypeError"}
       /\ (Constructed /\ FitCall)
          => \A n \in 1..self.features.sh[1] : \A i \in 2..Len(self._terms) :
                Rows(self._features_computed)[n][i]
                   = PowerProductOnRow(self._terms[i], self.variables, Rows(self.features)[n])
       /\ \A c \in DOMAIN calls :
             (calls[c].op = "run" /\ calls[c].data.nd = 2
                 /\ calls[c].data.sh[2] = Len(self.variables)
                 /\ Len(self._terms) = self.constants.sh[1])
             => /\ calls[c].out.err = "none"
                /\ calls[c].out.val =
                      Arr2([n \in 1..calls[c].data.sh[1] |->
                              [t \in 1..self.constants.sh[2] |->
                                 RSum([i \in 1..Len(self._terms) |->
                                         RMul(Rows(self.constants)[i][t],
                                              IF i = 1 THEN One
                                              ELSE PowerProductOnRow(self._terms[i],
                                                      self.variables,
                                                      Rows(calls[c].data)[n]))])]])

\* "x^2" fitted to features with a 2, whose design matrix holds the 4, and run on
\* [[2]] with a non-zero coefficient of the term.
C26_Witness ==
    /\ Constructed /\ FitCall /\ made.args.model = ModelSquare
    /\ \E n \in 1..self.features.sh[1] :
          /\ Rows(self.features)[n] = <<R(2)>>
          /\ Rows(self._features_computed)[n] = <<One, R(4)>>
    /\ ~IsZero(self.constants.v[2])
    /\ \E c \in DOMAIN calls :
          /\ calls[c].op = "run" /\ calls[c].out.err = "none"
          /\ calls[c].data = IntArr2(<< <<2>> >>)

(***************************************************************************)
(* widget_utils.StackByDepthLoader.                                        *)
(* The loader is a record of its attributes.  Two array objects can be the *)
(* loaded stack: the one np.empty made (empty_stack) and the one           *)
(* load_stack_all fetched (fetched_stack); loaded_stack names the object   *)
(* the attribute refers to, so that a write through loaded_stack changes   *)
(* the object it names.  An array is the sequence of its images by depth   *)
(* (depth d at index d + 1); the image of the table at depth d is Img(d),  *)
(* and Uninit is the arbitrary content np.empty leaves, equal to no image. *)
(* An optional argument is [has, ...].                                     *)
(***************************************************************************)
Img(d) == [depth |-> d]
Uninit == [depth |-> -1]

NoDepth == [has |-> FALSE, n |-> 0]
Depth(n) == [has |-> TRUE, n |-> n]
NoRange == [has |-> FALSE, a |-> 0, b |-> 0]
DepthRange(a, b) == [has |-> TRUE, a |-> a, b |-> b]
NoChunk == <<>>

Min(a, b) == IF a <= b THEN a ELSE b
Max(a, b) == IF a >= b THEN a ELSE b

\* initialize_stack, for a stack of stack_z images.
initialize_stack(stack_z, load_source, load_mode) ==
    [stack_z |-> stack_z, load_source |-> load_source, load_mode |-> load_mode,
     empty_stack |-> [i \in 1..stack_z |-> Uninit],
     fetched_stack |-> <<>>,
     loaded_stack |-> "empty_stack",
     loaded_stack_depth_tracker |-> [i \in 1..stack_z |-> 0]]

\* The array self.loaded_stack refers to.
LoadedStack(loader) == loader[loader.loaded_stack]

\* _prepare_stack_chunk(depth, padding, depth_range): (depth_min, depth_max),
\* None (NoChunk) when neither depth nor depth_range is given, or the
\* AssertionError.
prepare_stack_chunk(loader, depth, padding, depth_range) ==
    LET size == Len(loader.loaded_stack_depth_tracker)
    IN  IF depth.has /\ depth_range.has
        THEN Raise("AssertionError",
                   "Provide either depth/ padding or depth_range, but not both", <<>>)
        ELSE IF depth.has
        THEN IF depth.n < 0
             THEN Raise("AssertionError",
                        "depth must be an integer greater than or equal to 0", <<>>)
             ELSE IF padding < 0
             THEN Raise("AssertionError",
                        "padding must be an integer greater than or equal to 0", <<>>)
             ELSE Good(<<Max(depth.n - padding, 0), Min(depth.n + padding + 1, size - 1)>>)
        ELSE IF depth_range.has
        THEN IF Min(Max(depth_range.a, depth_range.b), size) < 0
             THEN Raise("AssertionError",
                        "depth_range must contain integers greater than or equal to 0", <<>>)
             ELSE Good(<<Max(Min(depth_range.a, depth_range.b), 0),
                         Min(Max(depth_range.a, depth_range.b), size)>>)
        ELSE Good(NoChunk)

\* The outcome of a method: the loader after it, what it returned or raised, and
\* the depths it fetched from the table.
Loaded(loader, out, fetched) == [loader |-> loader, out |-> out, fetched |-> fetched]

\* get_stack_images(depth, padding, depth_range, load_mode); load_mode "" is None.
get_stack_images(loader, depth, padding, depth_range, load_mode) ==
    LET chunk == prepare_stack_chunk(loader, depth, padding, depth_range)
        mode == IF load_mode = "" THEN loader.load_mode ELSE load_mode
        depths_to_load ==
            {d \in 0..(loader.stack_z - 1) :
                /\ loader.loaded_stack_depth_tracker[d + 1] = 0
                /\ d >= chunk.val[1] /\ d < chunk.val[2]}
    IN  IF chunk.err # "none" THEN Loaded(loader, chunk, {})
        ELSE IF chunk.val = NoChunk \/ depths_to_load = {} THEN Loaded(loader, Good(<<>>), {})
        ELSE IF loader.load_source \notin {"datajoint", "numpy"}
        THEN Loaded(loader, Raise("Exception", "load_source not recognized", <<>>), {})
        ELSE IF mode = "cache"
        THEN Loaded([loader EXCEPT
                       ![loader.loaded_stack] =
                           [i \in DOMAIN @ |-> IF i - 1 \in depths_to_load THEN Img(i - 1) ELSE @[i]],
                       !.loaded_stack_depth_tracker =
                           [i \in DOMAIN @ |-> IF i - 1 \in depths_to_load THEN 1 ELSE @[i]]],
                    Good(<<>>), depths_to_load)
        ELSE IF mode = "view"
        THEN Loaded(loader,
                    Good([i \in 1..Cardinality(depths_to_load) |->
                            Img(CHOOSE d \in depths_to_load :
                                   Cardinality({e \in depths_to_load : e < d}) = i - 1)]),
                    depths_to_load)
        ELSE Loaded(loader, Raise("Exception", "load_mode not recognized", <<>>), depths_to_load)

\* load_stack_all()
load_stack_all(loader) ==
    IF loader.load_source \notin {"datajoint", "numpy"}
    THEN Loaded(loader, Raise("Exception", "load_source not recognized", <<>>), {})
    ELSE Loaded([loader EXCEPT !.fetched_stack = [i \in 1..loader.stack_z |-> Img(i - 1)],
                               !.loaded_stack = "fetched_stack",
                               !.loaded_stack_depth_tracker = [i \in DOMAIN @ |-> 1]],
                Good(<<>>), 0..(loader.stack_z - 1))

\* reset_stack()
reset_stack(loader) == Loaded([loader EXCEPT !.loaded_stack = "empty_stack"], Good(<<>>), {})

\* check_if_loaded(depth), for a depth of the stack
check_if_loaded(loader, depth) == loader.loaded_stack_depth_tracker[depth + 1] # 0

(***************************************************************************)
(* The life of one StackByDepthLoader.                                     *)
(*   self   the loader; None before the construction and after one that    *)
(*          raised                                                         *)
(*   made   the construction call [op, args, out]                          *)
(*   calls  the calls so far, the get_stack_images of __init__ first, each *)
(*          [op, args, before, out, fetched], before the loader the call   *)
(*          was made on                                                    *)
(***************************************************************************)
StackZ == 3
MaxStackOps == 3

StackDepths == {NoDepth} \cup {Depth(n) : n \in -1..StackZ}
StackRanges == {NoRange, DepthRange(0, 2), DepthRange(1, StackZ + 1), DepthRange(-2, -1)}

\* The keyword arguments of get_stack_images: a depth with its padding, a
\* depth_range, both, or none.
ChunkArgs(modes) ==
    [depth : StackDepths, padding : 0..1, depth_range : {NoRange}, load_mode : modes]
    \cup [depth : {NoDepth, Depth(1)}, padding : {0}, depth_range : StackRanges \ {NoRange},
          load_mode : modes]
    \cup [depth : {Depth(0)}, padding : {-1}, depth_range : {NoRange}, load_mode : modes]

StackCall(op, args, before, o) ==
    [op |-> op, args |-> args, before |-> before, out |-> o.out, fetched |-> o.fetched]

NoArgs == [depth |-> NoDepth, padding |-> 0, depth_range |-> NoRange, load_mode |-> ""]

\* loader = StackByDepthLoader(..., load_source, depth, padding, depth_range,
\* load_mode): initialize_stack, then get_stack_images.
NewLoader ==
    /\ made = NoCall
    /\ \E a \in ChunkArgs({"cache", "view"}), source \in {"datajoint", "numpy"} :
          \E init \in {initialize_stack(StackZ, source, a.load_mode)} :
             \E o \in {get_stack_images(init, a.depth, a.padding, a.depth_range, a.load_mode)} :
                /\ made' = [op |-> "init", args |-> a, out |-> o.out]
                /\ self' = IF o.out.err = "none" THEN o.loader ELSE None
                /\ calls' = <<StackCall("get_stack_images", a, init, o)>>

IsLoader == made # NoCall /\ made.out.err = "none"

\* loader.get_stack_images(depth=..., padding=..., depth_range=..., load_mode=...)
GetStackImages ==
    /\ IsLoader /\ Len(calls) < MaxStackOps
    /\ \E a \in ChunkArgs({"", "cache", "view", "load"}) :
          \E o \in {get_stack_images(self, a.depth, a.padding, a.depth_range, a.load_mode)} :
             /\ self' = o.loader
             /\ calls' = Append(calls, StackCall("get_stack_images", a, self, o))
    /\ UNCHANGED made

\* loader.load_stack_all()
LoadStackAll ==
    /\ IsLoader /\ Len(calls) < MaxStackOps
    /\ \E o \in {load_stack_all(self)} :
          /\ self' = o.loader
          /\ calls' = Append(calls, StackCall("load_stack_all", NoArgs, self, o))
    /\ UNCHANGED made

\* loader.reset_stack()
ResetStack ==
    /\ IsLoader /\ Len(calls) < MaxStackOps
    /\ \E o \in {reset_stack(self)} :
          /\ self' = o.loader
          /\ calls' = Append(calls, StackCall("reset_stack", NoArgs, self, o))
    /\ UNCHANGED made

NextStack == NewLoader \/ GetStackImages \/ LoadStackAll \/ ResetStack

SpecStack == Init /\ [][NextStack]_vars

LastCall == calls[Len(calls)]

\* C27: after any sequence of get_stack_images, load_stack_all and reset_stack,
\* check_if_loaded(d) is true exactly when loaded_stack holds the image of depth
\* d; after reset_stack the loaded stack is the empty stack and no depth is
\* reported as loaded; and a get_stack_images in view mode changes neither the
\* arrays nor the tracker.
C27_TrackerMatchesCache ==
    IsLoader
    => /\ \A d \in 0..(self.stack_z - 1) :
             check_if_loaded(self, d) <=> LoadedStack(self)[d + 1] = Img(d)
       /\ LastCall.op = "reset_stack"
          => /\ self.loaded_stack = "empty_stack"
             /\ \A d \in 0..(self.stack_z - 1) : ~check_if_loaded(self, d)
       /\ (LastCall.op = "get_stack_images" /\ LastCall.out.err = "none"
              /\ (LastCall.args.load_mode = "view"
                     \/ (LastCall.args.load_mode = "" /\ LastCall.before.load_mode = "view")))
          => self = LastCall.before

\* The last call was a get_stack_images in cache mode that returned.
CachedLast ==
    /\ IsLoader
    /\ LastCall.op = "get_stack_images" /\ LastCall.out.err = "none"
    /\ \/ LastCall.args.load_mode = "cache"
       \/ LastCall.args.load_mode = "" /\ LastCall.before.load_mode = "cache"

\* C28: after get_stack_images(depth=d, padding=p) in cache mode, 0 <= d < Z and
\* p >= 0, every depth of [max(d-p, 0), min(d+p, Z-1)] is loaded, the depths
\* outside it are as they were, and no depth that was loaded is fetched; after
\* get_stack_images(depth_range=(a, b)) the depths a <= z < b of the stack are
\* loaded and the others are as they were.
C28_ChunkLoaded ==
    CachedLast
    => LET d == LastCall.args.depth.n
           p == LastCall.args.padding
           a == LastCall.args.depth_range.a
           b == LastCall.args.depth_range.b
           Z == self.stack_z
       IN  /\ (LastCall.args.depth.has /\ ~LastCall.args.depth_range.has /\ d \in 0..(Z - 1))
              => \A z \in 0..(Z - 1) :
                    /\ z \in Max(d - p, 0)..Min(d + p, Z - 1) => check_if_loaded(self, z)
                    /\ z \notin Max(d - p, 0)..Min(d + p, Z - 1)
                       => check_if_loaded(self, z) = check_if_loaded(LastCall.before, z)
                    /\ check_if_loaded(LastCall.before, z) => z \notin LastCall.fetched
           /\ (LastCall.args.depth_range.has /\ ~LastCall.args.depth.has)
              => \A z \in 0..(Z - 1) :
                    /\ (a <= z /\ z < b) => check_if_loaded(self, z)
                    /\ ~(a <= z /\ z < b)
                       => check_if_loaded(self, z) = check_if_loaded(LastCall.before, z)
                    /\ check_if_loaded(LastCall.before, z) => z \notin LastCall.fetched

\* Lines 238-244 of run: the matrix of term values, the column of ones first,
\* that run builds from data of one column per variable; or the exception.
RunFeatures(obj, data) ==
    LET n == Shape(data)[1]
        terms == [i \in 1..(Len(obj._terms) - 1) |-> ReplaceCaret(obj._terms[i + 1])]
    IN  With(EvalAll(terms, Mapping(obj.variables, data)),
          LAMBDA vals :
             IF vals.err # "none" THEN vals
             ELSE IF \E i \in DOMAIN vals.val : vals.val[i].k # "a"
             THEN Raise("AxisError", "axis 1 is out of bounds for array of dimension 1", <<>>)
             ELSE Good(HStack(<<[k |-> "a", v |-> Ones(n)]>> \o vals.val, n)))

\* A model whose term names the attribute '_bias' of the instance, and features
\* for its four variables a, b, i and s.
ModelBiasTimesA == <<"_", "b", "i", "a", "s", "*", "a">>

AgreeArgs ==
    InitArgs({ModelX, ModelSquare, ModelProduct, ModelBiasTimesA},
             Arrays2({2, 3}, 1, 0..2) \cup Arrays2({3}, 2, 0..1)
                \cup {IntArr2(<< <<1, 0, 2, 1>>, <<2, 1, 0, 1>>, <<4, 1, 1, 0>> >>)},
             Arrays2({2}, 1, 0..1) \cup Arrays2({3}, 1, 0..1),
             {IntArr2(<< <<0>>, <<2>> >>)},
             {}, {}, {})

ConstructAgree == Construct(AgreeArgs)
RunAgree == RunCall(1, {})
R2Agree == R2Call(1)

NextAgree == ConstructAgree \/ RunAgree \/ R2Agree

SpecAgree == Init /\ [][NextAgree]_vars

\* C29: for every fitted model, the matrix of term values that run builds from the
\* features of the fit is the design matrix of the fit, so that run(features) is
\* the design matrix times the constants and r2 is the formula on that product.
C29_EvaluatorsAgree ==
    (Constructed /\ FitCall)
    => /\ RunFeatures(self, self.features) = Good(Rows(self._features_computed))
       /\ \A c \in DOMAIN calls :
             /\ calls[c].out.err = "none"
             /\ (calls[c].op = "run" /\ calls[c].data = self.features)
                => Rows(calls[c].out.val)
                      = MatMul(Rows(self._features_computed), Rows(self.constants))
             /\ calls[c].op = "r2"
                => calls[c].out.val
                      = Arr1(RSquared(MatMul(Rows(self._features_computed),
                                             Rows(self.constants)),
                                      Rows(self.targets)))

(***************************************************************************)
(* model_utils.InterpModel.                                                *)
(* scipy's interpolators are outside the repository: a call of one is the  *)
(* record of the function called and its arguments, or the exception the   *)
(* library raises for them.                                                *)
(*   self   the object [_points, _values, _method, method_kws]; None       *)
(*          before the construction and after one that raised              *)
(*   made   the construction call [op, args, out]                          *)
(*   calls  the run calls so far, each [op, data, out]                     *)
(***************************************************************************)
MsgMethod == "Method provided not recognized. Valid methods: ['griddata', 'rbf']"

valid_methods == <<"griddata", "rbf">>

NoKws == <<"None">>

\* A variant of __init__ without the assert on the method.
InterpModelUnchecked(points, values, method, method_kws) ==
    Good([_points |-> points, _values |-> values, _method |-> method,
          method_kws |-> IF method_kws # NoKws THEN method_kws ELSE <<>>])

\* InterpModel.__init__(points, values, method, method_kws)
InterpModel(points, values, method, method_kws) ==
    IF method \notin Range(valid_methods) THEN Raise("AssertionError", MsgMethod, <<>>)
    ELSE Good([_points |-> points, _values |-> values, _method |-> method,
               method_kws |-> IF method_kws # NoKws THEN method_kws ELSE <<>>])

\* What the library does with a call: it returns, or raises.
Library == {"returns", "ValueError"}

Interpolated(function, points, values, xi, kws, lib) ==
    IF lib = "returns"
    THEN Good([function |-> function, points |-> points, values |-> values, xi |-> xi,
               kws |-> kws])
    ELSE Raise(lib, "scipy.interpolate", <<>>)

\* InterpModel.run(xi)
interp_run(obj, xi, lib) ==
    IF obj._method = "griddata"
    THEN Interpolated("griddata", obj._points, obj._values, xi, obj.method_kws, lib)
    ELSE IF obj._method = "rbf"
    THEN Interpolated("RBFInterpolator", obj._points, obj._values, xi, obj.method_kws, lib)
    ELSE Raise("AttributeError", "method not recognized.", <<>>)

MaxInterpRuns == 2

InterpArgs ==
    [points : {IntArr2(<< <<0>>, <<1>> >>), IntArr2(<< <<0, 0>>, <<1, 0>>, <<0, 1>> >>)},
     values : {IntArr2(<< <<1>>, <<2>> >>), IntArr2(<< <<1>>, <<2>>, <<4>> >>)},
     method : {"griddata", "rbf", "linear", "nearest", "RBF", ""},
     method_kws : {NoKws, <<>>, << <<"method", "nearest">> >>}]

InterpData == {IntArr2(<< <<0>> >>), IntArr2(<< <<1, 1>> >>), IntArr1(<<2>>)}

\* m = InterpModel(points, values, method, method_kws)
NewInterpModel ==
    /\ made = NoCall
    /\ \E a \in InterpArgs :
          \E out \in {InterpModel(a.points, a.values, a.method, a.method_kws)} :
             /\ made' = [op |-> "init", args |-> a, out |-> out]
             /\ self' = IF out.err = "none" THEN out.val ELSE None
    /\ UNCHANGED calls

\* m.run(xi)
RunInterp ==
    /\ self # None
    /\ Len(calls) < MaxInterpRuns
    /\ \E xi \in InterpData, lib \in Library :
          calls' = Append(calls, [op |-> "run", data |-> xi, out |-> interp_run(self, xi, lib)])
    /\ UNCHANGED <<self, made>>

NextInterp == NewInterpModel \/ RunInterp

SpecInterp == Init /\ [][NextInterp]_vars

\* C30: a construction succeeds exactly when the method is "griddata" or "rbf"
\* (any other raises the AssertionError and yields no object); the points, values
\* and method of the object stay those of the construction through every run; and
\* every run is a call of griddata or of RBFInterpolator, the one the method
\* names, never the "method not recognized" AttributeError.
C30_MethodIsValid ==
    made # NoCall
    => /\ made.out.err = "none" <=> made.args.method \in {"griddata", "rbf"}
       /\ made.out.err # "none" => (made.out.err = "AssertionError" /\ self = None)
       /\ made.out.err = "none"
          => /\ self._method = made.args.method
             /\ self._points = made.args.points
             /\ self._values = made.args.values
             /\ \A c \in DOMAIN calls :
                   /\ calls[c].out.err # "AttributeError"
                   /\ calls[c].out.err = "none"
                      => /\ calls[c].out.val.function
                              = (IF made.args.method = "rbf" THEN "RBFInterpolator"
                                 ELSE "griddata")
                         /\ calls[c].out.val.points = made.args.points
                         /\ calls[c].out.val.values = made.args.values

\* An "rbf" model after two runs, the second of which called RBFInterpolator.
C30_Witness ==
    /\ Constructed /\ made.args.method = "rbf"
    /\ Len(calls) = 2
    /\ calls[2].out.err = "none" /\ calls[2].out.val.function = "RBFInterpolator"

====
